---- MODULE Spec2Model ----
(***************************************************************************)
(* Kindle Highlights Reminder: the highlight store (lib/database.js), the  *)
(* highlight selector (lib/highlight-selector.js), the email scheduler     *)
(* (lib/email-scheduler.js) and the background service that drives them.   *)
(*                                                                         *)
(* Time is counted in minutes (the code counts milliseconds; every         *)
(* duration of the code is a whole number of minutes).  An object store is *)
(* a set of records with one record per key; a JavaScript object is a      *)
(* function from its own property names to values, so that the spread      *)
(* {...defaults, ...object} is function override.                          *)
(***************************************************************************)
EXTENDS Integers, Sequences, FiniteSets, TLC

VARIABLES
  now,           \* Date.now(), in minutes
  books,         \* object store 'books', keyPath asin
  highlights,    \* object store 'highlights', keyPath id
  syncHistory,   \* object store 'sync_history', keyPath id
  emailHistory,  \* object store 'email_history', keyPath id
  uuidSeq,       \* how many ids generateUUID has handed out
  settings,      \* chrome.storage.local 'settings'
  alarms,        \* chrome.alarms: the pending alarms, one per name
  sel,           \* the selection or delivery cycle in progress
  scheduler,     \* the EmailScheduler's database, emailService, highlightSelector
  lastOp         \* the last call: its name, argument, and result or "pending"

vars ==
  <<now, books, highlights, syncHistory, emailHistory, uuidSeq, settings, alarms,
    sel, scheduler, lastOp>>

(***************************************************************************)
(* Bounds of the model.                                                    *)
(***************************************************************************)
MaxTicks == 2
MaxShown == 2
MaxBatch == 2
MaxCount == 2
MaxSyncs == 2
MaxKeep == 2
MaxCalls == 2

HourMinutes == 60
DayMinutes == 24 * HourMinutes
StartTime == 10 * HourMinutes
TickStep == 12 * HourMinutes
EndTime == StartTime + MaxTicks * TickStep

(***************************************************************************)
(* Text: a string is a sequence of one-character strings.                  *)
(***************************************************************************)
CharCode(c) ==
  CASE c = " " -> 32
    [] c = "1" -> 49
    [] c = "2" -> 50
    [] c = "A" -> 65
    [] c = "B" -> 66
    [] c = "a" -> 97
    [] c = "b" -> 98
    [] c = "e" -> 101
    [] c = "k" -> 107
    [] c = "y" -> 121

ToLowerCase(s) ==
  [i \in 1..Len(s) |-> CASE s[i] = "A" -> "a" [] s[i] = "B" -> "b" [] OTHER -> s[i]]

IsLowerAlnum(c) == c \in {"a", "b", "e", "k", "y", "1", "2"}

RECURSIVE CollapseSpaces(_)
CollapseSpaces(s) ==
  IF Len(s) < 2 THEN s
  ELSE IF s[1] = " " /\ s[2] = " " THEN CollapseSpaces(Tail(s))
  ELSE <<s[1]>> \o CollapseSpaces(Tail(s))

RECURSIVE TrimStart(_)
TrimStart(s) == IF s # <<>> /\ s[1] = " " THEN TrimStart(Tail(s)) ELSE s

RECURSIVE TrimEnd(_)
TrimEnd(s) ==
  IF s # <<>> /\ s[Len(s)] = " " THEN TrimEnd(SubSeq(s, 1, Len(s) - 1)) ELSE s

cleanText(text) == CollapseSpaces(TrimEnd(TrimStart(text)))

\* ((hash << 5) - hash) + char, kept to a signed 32-bit integer by hash & hash;
\* computed on the two 16-bit halves of hash.
HashStep(hash, char) ==
  LET hi == hash \div 65536
      lo == hash % 65536
      low == (31 * lo) + char
      high == (31 * hi) + (low \div 65536)
  IN  ((((high + 32768) % 65536) - 32768) * 65536) + (low % 65536)

RECURSIVE HashFrom(_, _)
HashFrom(str, hash) ==
  IF str = <<>> THEN hash
  ELSE HashFrom(Tail(str), HashStep(hash, CharCode(str[1])))

simpleHash(str) ==
  LET h == HashFrom(str, 0) IN IF h < 0 THEN 0 - h ELSE h

\* A variant of generateHighlightId that hashes the text as it stands.
generateHighlightIdRaw(text, bookAsin) ==
  <<"highlight", bookAsin, simpleHash(text \o bookAsin)>>

generateHighlightId(text, bookAsin) ==
  LET clean == SelectSeq(ToLowerCase(text), IsLowerAlnum)
  IN  <<"highlight", bookAsin, simpleHash(clean \o bookAsin)>>

(***************************************************************************)
(* JavaScript objects and IndexedDB object stores.                         *)
(***************************************************************************)
Spread(defaults, object) ==
  [k \in DOMAIN defaults \cup DOMAIN object |->
     IF k \in DOMAIN object THEN object[k] ELSE defaults[k]]

StorePut(store, keyPath, record) ==
  {r \in store : r[keyPath] # record[keyPath]} \cup {record}

StoreDelete(store, keyPath, key) == {r \in store : r[keyPath] # key}

StoreGet(store, keyPath, key) == {r \in store : r[keyPath] = key}

(***************************************************************************)
(* The notebook page the content script scrapes: books and highlight       *)
(* elements.  A date of 0 is a highlight element without a date.           *)
(***************************************************************************)
Asins == {<<"B", "1">>, <<"B", "2">>}

Elements ==
  { [text |-> <<"a", "b">>, asin |-> <<"B", "1">>, color |-> "yellow",
     note |-> <<>>, date |-> 1 * HourMinutes],
    [text |-> <<"a", "b", " ">>, asin |-> <<"B", "1">>, color |-> "blue",
     note |-> <<"a">>, date |-> 0],
    [text |-> <<"k", "e", "y">>, asin |-> <<"B", "1">>, color |-> "yellow",
     note |-> <<>>, date |-> 2 * HourMinutes],
    [text |-> <<"A", "b">>, asin |-> <<"B", "2">>, color |-> "blue",
     note |-> <<>>, date |-> 0] }

createBookObject(asin, t) ==
  [asin |-> asin, title |-> <<"a">> \o asin, author |-> <<"b">>,
   coverUrl |-> <<>>, lastUpdated |-> t]

\* The first tag pattern, \b(important|key|critical|remember)\b, tags the
\* highlight "important"; the page spells no keyword but "key".
extractTags(text, note) ==
  LET combined == ToLowerCase(text \o <<" ">> \o note)
      word == <<"k", "e", "y">>
      IsWordAt(i) ==
        /\ i + Len(word) - 1 <= Len(combined)
        /\ SubSeq(combined, i, i + Len(word) - 1) = word
        /\ (i = 1 \/ ~IsLowerAlnum(combined[i - 1]))
        /\ (i + Len(word) > Len(combined) \/ ~IsLowerAlnum(combined[i + Len(word)]))
  IN  IF \E i \in 1..Len(combined) : IsWordAt(i) THEN <<"important">> ELSE <<>>

createHighlightObject(e, t) ==
  [id |-> generateHighlightId(e.text, e.asin),
   bookAsin |-> e.asin,
   text |-> cleanText(e.text),
   location |-> <<>>,
   page |-> <<>>,
   dateHighlighted |-> IF e.date # 0 THEN e.date ELSE t,
   dateAdded |-> t,
   color |-> e.color,
   note |-> cleanText(e.note),
   tags |-> extractTags(e.text, e.note)]

\* The highlight elements of one page, in the order of the page: up to MaxBatch
\* elements, no element twice.
Batches ==
  {batch \in UNION {[1..n -> Elements] : n \in 0..MaxBatch} :
     \A i \in 1..Len(batch), j \in 1..Len(batch) : batch[i] = batch[j] => i = j}

(***************************************************************************)
(* Database (lib/database.js).                                             *)
(***************************************************************************)
addBook(bs, book, t) ==
  StorePut(bs, "asin",
    Spread([asin |-> book.asin, title |-> book.title, author |-> book.author,
            coverUrl |-> book.coverUrl, lastUpdated |-> t], book))

deleteBook(bs, asin) == StoreDelete(bs, "asin", asin)

\* A variant of addHighlight that stamps the record after the spread.
addHighlightStamped(hs, highlight, t) ==
  StorePut(hs, "id", Spread(highlight, [dateAdded |-> t, lastSentInEmail |-> 0]))

addHighlight(hs, highlight, t) ==
  StorePut(hs, "id",
    Spread([id |-> highlight.id,
            bookAsin |-> highlight.bookAsin,
            text |-> highlight.text,
            location |-> highlight.location,
            page |-> highlight.page,
            dateHighlighted |->
              IF highlight.dateHighlighted # 0 THEN highlight.dateHighlighted ELSE t,
            dateAdded |-> t,
            color |-> highlight.color,
            note |-> highlight.note,
            tags |-> highlight.tags,
            lastSentInEmail |-> 0], highlight))

deleteHighlight(hs, id) == StoreDelete(hs, "id", id)

\* updateHighlight throws when the id is not stored; the store is then unchanged.
updateHighlight(hs, id, updates) ==
  LET found == StoreGet(hs, "id", id)
  IN  IF found = {} THEN hs
      ELSE StorePut(hs, "id", Spread(CHOOSE h \in found : TRUE, updates))

\* IndexedDB returns the records of a store in the order of their keys, and
\* compares string keys character by character.
RECURSIVE Digits(_)
Digits(n) ==
  IF n < 10 THEN <<48 + n>> ELSE Digits(n \div 10) \o <<48 + (n % 10)>>

RECURSIVE LexLess(_, _)
LexLess(a, b) ==
  IF a = <<>> THEN b # <<>>
  ELSE IF b = <<>> THEN FALSE
  ELSE IF a[1] # b[1] THEN a[1] < b[1]
  ELSE LexLess(Tail(a), Tail(b))

AsinKey(asin) == [i \in 1..Len(asin) |-> CharCode(asin[i])]

IdKey(id) == AsinKey(id[2]) \o <<95>> \o Digits(id[3])

RECURSIVE getAllBooks(_)
getAllBooks(bs) ==
  IF bs = {} THEN <<>>
  ELSE LET first == CHOOSE b \in bs :
                      \A c \in bs \ {b} : LexLess(AsinKey(b.asin), AsinKey(c.asin))
       IN  <<first>> \o getAllBooks(bs \ {first})

RECURSIVE getAllHighlights(_)
getAllHighlights(hs) ==
  IF hs = {} THEN <<>>
  ELSE LET first == CHOOSE h \in hs :
                      \A g \in hs \ {h} : LexLess(IdKey(h.id), IdKey(g.id))
       IN  <<first>> \o getAllHighlights(hs \ {first})

exportAllData(bs, hs) ==
  [version |-> "1.0",
   data |-> [books |-> getAllBooks(bs), highlights |-> getAllHighlights(hs)],
   metadata |-> [totalBooks |-> Cardinality(bs), totalHighlights |-> Cardinality(hs)]]

RECURSIVE ImportBooks(_, _, _, _, _)
ImportBooks(res, list, overwrite, skipDuplicates, t) ==
  IF list = <<>> THEN res
  ELSE LET book == Head(list)
           existing == StoreGet(res.store, "asin", book.asin)
       IN  IF existing # {} /\ ~overwrite /\ skipDuplicates
           THEN ImportBooks([res EXCEPT !.skipped = @ + 1], Tail(list),
                            overwrite, skipDuplicates, t)
           ELSE ImportBooks([res EXCEPT !.store = addBook(@, book, t),
                                        !.imported = @ + 1], Tail(list),
                            overwrite, skipDuplicates, t)

\* A variant of ImportHighlights that adds every record, whatever the options.
RECURSIVE ImportHighlightsAlways(_, _, _, _, _)
ImportHighlightsAlways(res, list, overwrite, skipDuplicates, t) ==
  IF list = <<>> THEN res
  ELSE ImportHighlightsAlways([res EXCEPT !.store = addHighlight(@, Head(list), t),
                                          !.imported = @ + 1], Tail(list),
                              overwrite, skipDuplicates, t)

RECURSIVE ImportHighlights(_, _, _, _, _)
ImportHighlights(res, list, overwrite, skipDuplicates, t) ==
  IF list = <<>> THEN res
  ELSE LET highlight == Head(list)
           existing == StoreGet(res.store, "id", highlight.id)
       IN  IF existing # {} /\ ~overwrite /\ skipDuplicates
           THEN ImportHighlights([res EXCEPT !.skipped = @ + 1], Tail(list),
                                 overwrite, skipDuplicates, t)
           ELSE ImportHighlights([res EXCEPT !.store = addHighlight(@, highlight, t),
                                             !.imported = @ + 1], Tail(list),
                                 overwrite, skipDuplicates, t)

importData(bs, hs, import, overwrite, skipDuplicates, t) ==
  [books |-> ImportBooks([store |-> bs, imported |-> 0, skipped |-> 0, errors |-> 0],
                         import.data.books, overwrite, skipDuplicates, t),
   highlights |-> ImportHighlights([store |-> hs, imported |-> 0, skipped |-> 0,
                                    errors |-> 0],
                                   import.data.highlights, overwrite, skipDuplicates, t)]

\* What importData resolves to: its counters.  errors counts the records whose
\* getBook, getHighlight, addBook or addHighlight threw.
ImportResults(res) ==
  [books |-> [imported |-> res.books.imported, skipped |-> res.books.skipped,
              errors |-> res.books.errors],
   highlights |-> [imported |-> res.highlights.imported,
                   skipped |-> res.highlights.skipped,
                   errors |-> res.highlights.errors]]

\* cleanup with its default options: the orphaned highlights are those whose
\* bookAsin is the asin of no stored book; each is deleted by its id.
RECURSIVE DeleteHighlights(_, _)
DeleteHighlights(hs, list) ==
  IF list = <<>> THEN hs
  ELSE DeleteHighlights(deleteHighlight(hs, Head(list).id), Tail(list))

\* A variant of orphanedHighlights that looks the books up by title.
orphanedHighlightsByTitle(bs, hs) ==
  LET bookTitles == {b.title : b \in bs}
  IN  SelectSeq(getAllHighlights(hs), LAMBDA h : h.bookAsin \notin bookTitles)

orphanedHighlights(bs, hs) ==
  LET bookAsins == {b.asin : b \in bs}
  IN  SelectSeq(getAllHighlights(hs), LAMBDA h : h.bookAsin \notin bookAsins)

(***************************************************************************)
(* BackgroundService.storeScrapedData: books first, then highlights.       *)
(***************************************************************************)
RECURSIVE StoreBooks(_, _, _)
StoreBooks(bs, list, t) ==
  IF list = <<>> THEN bs
  ELSE StoreBooks(addBook(bs, Head(list), t), Tail(list), t)

RECURSIVE StoreHighlights(_, _, _)
StoreHighlights(hs, list, t) ==
  IF list = <<>> THEN hs
  ELSE StoreHighlights(addHighlight(hs, Head(list), t), Tail(list), t)

ScrapedBooks(asins, t) == getAllBooks({createBookObject(a, t) : a \in asins})

\* What the parser makes of each element of the page at each time of the clock.
Times == {StartTime + (k * TickStep) : k \in 0..MaxTicks}

ParsedElements == [e \in Elements, t \in Times |-> createHighlightObject(e, t)]

ScrapedHighlights(batch, t) == [i \in 1..Len(batch) |-> ParsedElements[batch[i], t]]

\* How many highlights of a scraped list are stored under an id that is already
\* in the store or earlier in the list.
Reingested(hs, list) ==
  Cardinality({i \in 1..Len(list) :
                 \/ StoreGet(hs, "id", list[i].id) # {}
                 \/ \E j \in 1..(i - 1) : list[j].id = list[i].id})


(***************************************************************************)
(* Sync and email history (lib/database.js).  A generated UUID is the      *)
(* number of the call of generateUUID that made it.                        *)
(***************************************************************************)
addSyncRecord(sh, syncData, uuid, t) ==
  StorePut(sh, "id",
    Spread([id |-> uuid, syncDate |-> t, highlightsAdded |-> 0,
            highlightsTotal |-> 0, status |-> "success", errorMessage |-> <<>>],
           syncData))

\* The records of a history store through its date index, most recent first
\* (records of one date by descending id), at most limit of them.
RECURSIVE RecentFirst(_, _)
RecentFirst(records, dateKey) ==
  IF records = {} THEN <<>>
  ELSE LET first == CHOOSE r \in records :
                      \A q \in records \ {r} :
                        \/ q[dateKey] < r[dateKey]
                        \/ (q[dateKey] = r[dateKey] /\ q.id < r.id)
       IN  <<first>> \o RecentFirst(records \ {first}, dateKey)

getSyncHistory(sh, limit) ==
  LET all == RecentFirst(sh, "syncDate")
  IN  SubSeq(all, 1, IF Len(all) < limit THEN Len(all) ELSE limit)

getEmailHistory(eh, limit) ==
  LET all == RecentFirst(eh, "sentDate")
  IN  SubSeq(all, 1, IF Len(all) < limit THEN Len(all) ELSE limit)

maxSyncRecords == 100
maxEmailRecords == 100
cleanupHistoryLimit == 1000

\* cleanup's first two steps: of the records getSyncHistory or getEmailHistory
\* returns, the most recent limit ones, most recent first, those after the
\* first max are deleted by id.  Before(r) is the index before r in that list.
RemoveOldRecords(store, dateKey, limit, max) ==
  LET Before(r) == Cardinality({q \in store :
                                  \/ q[dateKey] > r[dateKey]
                                  \/ (q[dateKey] = r[dateKey] /\ q.id > r.id)})
      records == {r \in store : Before(r) < limit}
  IN  IF Cardinality(records) > max
      THEN store \ {r \in records : Before(r) >= max}
      ELSE store

(***************************************************************************)
(* HighlightSelector (lib/highlight-selector.js).  A score is counted in   *)
(* thousandths; Math.random() is a choice among a few values of its range. *)
(***************************************************************************)
Min(a, b) == IF a < b THEN a ELSE b

Max(a, b) == IF a > b THEN a ELSE b

Includes(list, x) == \E i \in 1..Len(list) : list[i] = x

\* object[key], or default where the object has no such property
Get(object, key, default) == IF key \in DOMAIN object THEN object[key] ELSE default

Ids(list) == [i \in 1..Len(list) |-> list[i].id]

Range(list) == {list[i] : i \in 1..Len(list)}

TimesShown(h) == IF "timesShown" \in DOMAIN h THEN h.timesShown ELSE 0

LastShown(h) == IF "lastShown" \in DOMAIN h THEN h.lastShown ELSE 0

HasNote(h) == TrimEnd(TrimStart(h.note)) # <<>>

\* Array.prototype.sort is stable: a list of [key, item] pairs by ascending key,
\* equal keys in their order in the list.
RECURSIVE Insert(_, _)
Insert(sorted, x) ==
  IF sorted = <<>> THEN <<x>>
  ELSE IF x.key < Head(sorted).key THEN <<x>> \o sorted
  ELSE <<Head(sorted)>> \o Insert(Tail(sorted), x)

RECURSIVE SortByKey(_)
SortByKey(pairs) ==
  IF pairs = <<>> THEN <<>>
  ELSE Insert(SortByKey(SubSeq(pairs, 1, Len(pairs) - 1)), pairs[Len(pairs)])

Items(pairs) == [i \in 1..Len(pairs) |-> pairs[i].item]

\* list.slice(0, count): a negative count counts from the end of the list.
Slice(list, count) ==
  SubSeq(list, 1, IF count < 0 THEN Max(0, Len(list) + count)
                  ELSE Min(count, Len(list)))

filterHighlights(list, userSettings, t) ==
  LET preferredBooks == Get(userSettings, "preferredBooks", <<>>)
      preferredColors == Get(userSettings, "preferredColors", <<>>)
      minAge == Get(userSettings, "minHighlightAge", 0)
      minDate == t - (minAge * DayMinutes)
      requiredTags == Get(userSettings, "requiredTags", <<>>)
      byBook ==
        IF Len(preferredBooks) > 0
        THEN SelectSeq(list, LAMBDA h : Includes(preferredBooks, h.bookAsin))
        ELSE list
      byColor ==
        IF Len(preferredColors) > 0
        THEN SelectSeq(byBook, LAMBDA h : Includes(preferredColors, h.color))
        ELSE byBook
      byAge ==
        IF minAge > 0
        THEN SelectSeq(byColor, LAMBDA h : h.dateHighlighted <= minDate)
        ELSE byColor
  IN  IF Len(requiredTags) > 0
      THEN SelectSeq(byAge, LAMBDA h :
             /\ Len(h.tags) > 0
             /\ \E i \in 1..Len(requiredTags) : Includes(h.tags, requiredTags[i]))
      ELSE byAge

spacedRepetitionIntervals == <<1, 3, 7, 14, 30, 90, 180, 365>>

\* Math.random() * 0.1, in thousandths
TieBreaks == {0, 99}

\* Math.random(), in thousandths
Randoms == {0, 999}

\* A variant of calculateSpacedRepetitionScore that counts the days from the
\* epoch to lastShown.
calculateSpacedRepetitionScoreRecent(highlight, t, random) ==
  LET timesShown == TimesShown(highlight)
      lastShown == LastShown(highlight)
      daysSinceLastShown ==
        IF lastShown > 0 THEN (lastShown * 1000) \div DayMinutes ELSE 999 * 1000
      intervalIndex == Min(timesShown, Len(spacedRepetitionIntervals) - 1)
      targetInterval == spacedRepetitionIntervals[intervalIndex + 1]
      score == daysSinceLastShown \div targetInterval
      noted == IF HasNote(highlight) THEN (score * 15) \div 10 ELSE score
      tagged == IF Len(highlight.tags) > 0 THEN (noted * 12) \div 10 ELSE noted
      reduced == IF timesShown > 5 THEN (tagged * 8) \div 10 ELSE tagged
  IN  reduced + random

calculateSpacedRepetitionScore(highlight, t, random) ==
  LET timesShown == TimesShown(highlight)
      lastShown == LastShown(highlight)
      daysSinceLastShown ==
        IF lastShown > 0 THEN ((t - lastShown) * 1000) \div DayMinutes
        ELSE 999 * 1000
      intervalIndex == Min(timesShown, Len(spacedRepetitionIntervals) - 1)
      targetInterval == spacedRepetitionIntervals[intervalIndex + 1]
      score == daysSinceLastShown \div targetInterval
      noted == IF HasNote(highlight) THEN (score * 15) \div 10 ELSE score
      tagged == IF Len(highlight.tags) > 0 THEN (noted * 12) \div 10 ELSE noted
      reduced == IF timesShown > 5 THEN (tagged * 8) \div 10 ELSE tagged
  IN  reduced + random

\* The for loop of selectBySpacedRepetition: its bound is evaluated before each
\* pass, against the candidates the earlier passes have left.
RECURSIVE RandomPicks(_, _, _, _)
RandomPicks(i, count, candidatesCopy, selected) ==
  IF i < Min(count, Len(candidatesCopy))
  THEN UNION {RandomPicks(i + 1, count,
                          SubSeq(candidatesCopy, 1, randomIndex)
                            \o SubSeq(candidatesCopy, randomIndex + 2,
                                      Len(candidatesCopy)),
                          Append(selected, candidatesCopy[randomIndex + 1])) :
                randomIndex \in 0..(Len(candidatesCopy) - 1)}
  ELSE {selected}

\* The results selectBySpacedRepetition can return.
selectBySpacedRepetition(list, count, t) ==
  UNION {LET scoredHighlights ==
               SortByKey([i \in 1..Len(list) |->
                 [key |-> 0 - calculateSpacedRepetitionScore(list[i], t, random[i]),
                  item |-> list[i]]])
             topCandidates ==
               Slice(Items(scoredHighlights), Min(count * 2, Len(scoredHighlights)))
         IN  RandomPicks(0, count, topCandidates, <<>>) :
           random \in [1..Len(list) -> TieBreaks]}

\* In hundred-thousandths: each component in thousandths times its weight in
\* hundredths.
calculateWeightedScore(highlight, t, tieBreak, random) ==
  LET spacedScore == calculateSpacedRepetitionScore(highlight, t, tieBreak)
      hasNotesScore == IF HasNote(highlight) THEN 1000 ELSE 0
      daysSinceHighlighted == ((t - highlight.dateHighlighted) * 1000) \div DayMinutes
      recencyScore == Max(0, 1000 - (daysSinceHighlighted \div 365))
      frequencyScore == Max(0, 1000 - (TimesShown(highlight) * 100))
      tagsScore == IF Len(highlight.tags) > 0 THEN 1000 ELSE 0
  IN  (spacedScore * 40) + (hasNotesScore * 20) + (recencyScore * 15)
        + (frequencyScore * 10) + (tagsScore * 10) + (random * 5)

selectByWeightedScore(list, count, t) ==
  {Slice(Items(SortByKey([i \in 1..Len(list) |->
           [key |-> 0 - calculateWeightedScore(list[i], t, tieBreak[i], random[i]),
            item |-> list[i]]])), count) :
     tieBreak \in [1..Len(list) -> TieBreaks], random \in [1..Len(list) -> Randoms]}

\* A sort whose comparator answers at random leaves the list in some order.
selectRandomly(list, count) ==
  {Slice([i \in 1..Len(list) |-> list[p[i]]], count) :
     p \in Permutations(1..Len(list))}

\* A variant of selectOldestFirst that returns the sorted list whole.
selectOldestFirstUnsliced(list, count) ==
  Items(SortByKey([i \in 1..Len(list) |->
    [key |-> list[i].dateHighlighted, item |-> list[i]]]))

\* A variant of selectOldestFirst that takes the list in the order of the store.
selectOldestFirstUnsorted(list, count) == Slice(list, count)

selectOldestFirst(list, count) ==
  Slice(Items(SortByKey([i \in 1..Len(list) |->
    [key |-> list[i].dateHighlighted, item |-> list[i]]])), count)

selectNewestFirst(list, count) ==
  Slice(Items(SortByKey([i \in 1..Len(list) |->
    [key |-> 0 - list[i].dateHighlighted, item |-> list[i]]])), count)

\* selectFromMostHighlightedBooks before its loop: the highlights' ids grouped by
\* book in the order the books first appear, then the groups by descending size.
RECURSIVE GroupByBook(_, _)
GroupByBook(list, bookGroups) ==
  IF list = <<>> THEN bookGroups
  ELSE LET highlight == Head(list)
           at == {i \in 1..Len(bookGroups) : bookGroups[i].asin = highlight.bookAsin}
       IN  IF at = {}
           THEN GroupByBook(Tail(list),
                  Append(bookGroups,
                         [asin |-> highlight.bookAsin, ids |-> <<highlight.id>>]))
           ELSE GroupByBook(Tail(list),
                  [bookGroups EXCEPT ![CHOOSE i \in at : TRUE].ids =
                                        Append(@, highlight.id)])

sortedBooks(list) ==
  LET bookGroups == GroupByBook(list, <<>>)
  IN  Items(SortByKey([i \in 1..Len(bookGroups) |->
        [key |-> 0 - Len(bookGroups[i].ids), item |-> bookGroups[i].ids]]))

\* The results selectByAlgorithm can return, for every algorithm but
\* 'most-highlighted', whose loop is the action SelectFromMostHighlightedBooks.
selectByAlgorithm(list, count, algorithm, t) ==
  CASE algorithm = "spaced-repetition" -> selectBySpacedRepetition(list, count, t)
    [] algorithm = "random" -> selectRandomly(list, count)
    [] algorithm = "oldest-first" -> {selectOldestFirst(list, count)}
    [] algorithm = "newest-first" -> {selectNewestFirst(list, count)}
    [] algorithm = "weighted-smart" -> selectByWeightedScore(list, count, t)
    [] OTHER -> selectBySpacedRepetition(list, count, t)

\* A variant of markHighlightsAsShown that records a first showing every time.
RECURSIVE markHighlightsAsShownOnce(_, _, _)
markHighlightsAsShownOnce(hs, highlightIds, t) ==
  IF highlightIds = <<>> THEN hs
  ELSE markHighlightsAsShownOnce(
         updateHighlight(hs, Head(highlightIds), [lastShown |-> t, timesShown |-> 1]),
         Tail(highlightIds), t)

RECURSIVE MarkEach(_, _, _)
MarkEach(hs, highlightIds, t) ==
  IF highlightIds = <<>> THEN hs
  ELSE LET id == Head(highlightIds)
           found == StoreGet(hs, "id", id)
       IN  IF found # {}
           THEN LET highlight == CHOOSE h \in found : TRUE
                    updates == [lastShown |-> t,
                                timesShown |-> TimesShown(highlight) + 1]
                IN  MarkEach(updateHighlight(hs, id, updates), Tail(highlightIds), t)
           ELSE MarkEach(hs, Tail(highlightIds), t)

markHighlightsAsShown(hs, highlightIds, t) == MarkEach(hs, highlightIds, t)

(***************************************************************************)
(* Database: bulk operations.  What a call returns is a record: status     *)
(* "resolved" with the value the promise resolves to, or "rejected".       *)
(***************************************************************************)
Resolved(value) == [status |-> "resolved", value |-> value]

Rejected == [status |-> "rejected", value |-> <<>>]

\* store.delete of a key that is not stored succeeds like any other; completed
\* counts every request.
bulkDeleteHighlights(hs, highlightIds) ==
  [store |-> {h \in hs : ~Includes(highlightIds, h.id)},
   result |-> Resolved(Len(highlightIds))]

\* The highlights bulkUpdateHighlights puts, in the order of highlightIds.
RECURSIVE UpdatedHighlights(_, _, _)
UpdatedHighlights(hs, highlightIds, updates) ==
  IF highlightIds = <<>> THEN <<>>
  ELSE LET found == {h \in hs : h.id = Head(highlightIds)}
           rest == UpdatedHighlights(hs, Tail(highlightIds), updates)
       IN  IF found = {} THEN rest
           ELSE <<Spread(CHOOSE h \in found : TRUE, updates)>> \o rest

\* failed is the id whose put request fails, or <<>>: its onerror rejects
\* the call and, the error event not being cancelled, the transaction aborts.
bulkUpdateHighlights(hs, highlightIds, updates, failed) ==
  LET results == UpdatedHighlights(hs, highlightIds, updates)
  IN  IF \E i \in 1..Len(results) : results[i].id = failed
      THEN [store |-> hs, result |-> Rejected]
      ELSE [store |-> {h \in hs : ~Includes(highlightIds, h.id)} \cup Range(results),
            result |-> Resolved(results)]

(***************************************************************************)
(* EmailScheduler (lib/email-scheduler.js) and chrome.alarms.  Local time  *)
(* is UTC: minute 0 is the midnight that begins Thursday 1 January 1970.   *)
(* An emailTime 'HH:MM' is the pair <<HH, MM>>; a period of 0 is no period.*)
(***************************************************************************)
alarmName == "kindle-highlights-reminder"

\* chrome.alarms.create: an alarm of the same name is replaced.
AlarmsCreate(as, alarm) == {a \in as : a.name # alarm.name} \cup {alarm}

ReminderAlarms(as) == {a \in as : a.name = alarmName}

clearScheduledEmails(as) == {a \in as : a.name # alarmName}

getDay(t) == ((t \div DayMinutes) + 4) % 7

\* A variant of calculateNextEmailTime that never rolls over to the next day.
calculateNextEmailTimeToday(userSettings, t) ==
  ((t \div DayMinutes) * DayMinutes)
    + (userSettings.emailTime[1] * HourMinutes) + userSettings.emailTime[2]

calculateNextEmailTime(userSettings, t) ==
  LET hours == userSettings.emailTime[1]
      minutes == userSettings.emailTime[2]
      today == ((t \div DayMinutes) * DayMinutes) + (hours * HourMinutes) + minutes
      targetTime == IF today <= t THEN today + DayMinutes ELSE today
      emailDay == Get(userSettings, "emailDay", 0)
      targetDay == IF emailDay = 0 THEN 1 ELSE emailDay
      currentDay == getDay(targetTime)
      daysUntilTarget == ((targetDay - currentDay) + 7) % 7
  IN  IF /\ userSettings.emailFrequency = "weekly"
         /\ (daysUntilTarget > 0 \/ (daysUntilTarget = 0 /\ targetTime <= t))
      THEN targetTime
             + ((IF daysUntilTarget = 0 THEN 7 ELSE daysUntilTarget) * DayMinutes)
      ELSE targetTime

\* BackgroundService.getNextEmailTime(timeString).
getNextEmailTime(timeString, t) ==
  LET emailTime == ((t \div DayMinutes) * DayMinutes)
                     + (timeString[1] * HourMinutes) + timeString[2]
  IN  IF emailTime <= t THEN emailTime + DayMinutes ELSE emailTime

getAlarmPeriod(frequency) ==
  CASE frequency = "daily" -> 24 * 60
    [] frequency = "weekly" -> 7 * 24 * 60
    [] OTHER -> 0

\* The alarm scheduleEmails creates; settings without an emailTime make
\* calculateNextEmailTime throw, and no alarm is created.
NewReminder(userSettings, t) ==
  IF \/ Get(userSettings, "emailFrequency", "") = "manual"
     \/ "emailTime" \notin DOMAIN userSettings
  THEN {}
  ELSE {[name |-> alarmName,
         scheduledTime |-> calculateNextEmailTime(userSettings, t),
         periodInMinutes |-> getAlarmPeriod(Get(userSettings, "emailFrequency", ""))]}

\* A variant of scheduleEmails that does not clear the pending alarm first.
scheduleEmailsKeeping(as, userSettings, t) ==
  IF NewReminder(userSettings, t) = {} THEN as
  ELSE AlarmsCreate(as, CHOOSE a \in NewReminder(userSettings, t) : TRUE)

scheduleEmails(as, userSettings, t) ==
  LET cleared == clearScheduledEmails(as)
  IN  IF NewReminder(userSettings, t) = {} THEN cleared
      ELSE AlarmsCreate(cleared, CHOOSE a \in NewReminder(userSettings, t) : TRUE)

updateSchedule(as, newSettings, t) == scheduleEmails(as, newSettings, t)

(***************************************************************************)
(* BackgroundService: settings and alarms.                                 *)
(***************************************************************************)
defaultSettings ==
  [email |-> <<>>, emailFrequency |-> "daily", emailTime |-> <<9, 0>>,
   highlightsPerEmail |-> 5, syncFrequency |-> 6, enableAutoSync |-> TRUE,
   enableNotifications |-> TRUE, highlightSelectionMode |-> "spaced-repetition"]

setupDefaultAlarms(st, t) ==
  LET withSync ==
        IF Get(st, "enableAutoSync", FALSE)
        THEN AlarmsCreate({}, [name |-> "sync-highlights",
                               scheduledTime |-> t + (st.syncFrequency * 60),
                               periodInMinutes |-> st.syncFrequency * 60])
        ELSE {}
  IN  IF Get(st, "emailFrequency", "") # "manual"
      THEN scheduleEmails(withSync, st, t)
      ELSE withSync

restoreAlarms(as, st, t) == IF as = {} THEN setupDefaultAlarms(st, t) ELSE as

\* saveSettings, then updateEmailSchedule with the settings of the message.
SavedSettings(st, newSettings) == Spread(st, newSettings)

SavedAlarms(as, st, newSettings, t) ==
  LET afterSave ==
        IF \/ Get(newSettings, "syncFrequency", 0) # 0
           \/ Get(newSettings, "enableAutoSync", FALSE)
        THEN setupDefaultAlarms(SavedSettings(st, newSettings), t)
        ELSE as
  IN  IF /\ Get(newSettings, "emailFrequency", "") # ""
         /\ "emailTime" \in DOMAIN newSettings
      THEN updateSchedule(afterSave, newSettings, t)
      ELSE afterSave

(***************************************************************************)
(* The inputs of the handlers.                                             *)
(***************************************************************************)
Counts == 0..MaxCount

Filters ==
  { [preferredBooks |-> <<>>],
    [preferredBooks |-> << <<"B", "1">> >>],
    [preferredColors |-> <<"blue">>],
    [minHighlightAge |-> 1],
    [requiredTags |-> <<"important">>] }

Algorithms ==
  {"spaced-repetition", "random", "oldest-first", "newest-first",
   "most-highlighted", "weighted-smart", "balanced"}

SelectionSettings ==
  Filters \cup {[preferredBooks |-> <<>>, highlightSelectionMode |-> a] : a \in Algorithms}

DeliverySettings ==
  { [highlightsPerEmail |-> 1],
    [highlightsPerEmail |-> 2, highlightSelectionMode |-> "oldest-first"],
    [highlightsPerEmail |-> 1, highlightSelectionMode |-> "most-highlighted"],
    [highlightSelectionMode |-> "random"] }

ScheduleSettings ==
  { [emailFrequency |-> "daily", emailTime |-> <<22, 0>>],
    [emailFrequency |-> "weekly", emailTime |-> <<9, 0>>, emailDay |-> 6],
    [emailFrequency |-> "manual", emailTime |-> <<9, 0>>],
    [emailFrequency |-> "daily"],
    [emailFrequency |-> "daily", emailTime |-> <<9, 0>>,
     highlightsPerEmail |-> 1, highlightSelectionMode |-> "most-highlighted"] }

SettingsMessages ==
  { [enableAutoSync |-> FALSE],
    [emailFrequency |-> "manual"],
    [emailFrequency |-> "weekly", emailTime |-> <<22, 0>>, enableAutoSync |-> TRUE] }

\* The notebook pages of the first sync: the elements in the order of the page.
RECURSIVE ElementList(_)
ElementList(es) ==
  IF es = {} THEN <<>>
  ELSE LET first == CHOOSE e \in es :
             \A f \in es \ {e} :
               \/ LexLess(IdKey(ParsedElements[e, StartTime].id),
                          IdKey(ParsedElements[f, StartTime].id))
               \/ /\ ParsedElements[e, StartTime].id = ParsedElements[f, StartTime].id
                  /\ e.color = "yellow"
       IN  <<first>> \o ElementList(es \ {first})

Page == ElementList(Elements)

Pages == {SubSeq(Page, 1, n) : n \in 0..Len(Page)}

\* The ids a caller may name: the ids of the page's highlights, and one id that
\* is never stored.
MissingId == <<"highlight", <<"B", "1">>, 0>>

KnownIds == {ParsedElements[e, StartTime].id : e \in Elements} \cup {MissingId}

RECURSIVE IdList(_)
IdList(ids) ==
  IF ids = {} THEN <<>>
  ELSE LET first == CHOOSE i \in ids : \A j \in ids \ {i} : LexLess(IdKey(i), IdKey(j))
       IN  <<first>> \o IdList(ids \ {first})

(***************************************************************************)
(* The state machine.                                                      *)
(***************************************************************************)
DefaultHighlightsPerEmail == 5

\* How many showings the store records: the sum of timesShown.
RECURSIVE Shows(_)
Shows(hs) ==
  IF hs = {} THEN 0
  ELSE LET h == CHOOSE x \in hs : TRUE IN TimesShown(h) + Shows(hs \ {h})

Idle ==
  [pc |-> "idle", caller |-> "", userSettings |-> <<>>, status |-> "",
   count |-> 0, filteredCount |-> 0, sortedBooks |-> <<>>, highlights |-> <<>>,
   bookIndex |-> 0]

\* selectHighlights has returned to caller: status, and the ids of the
\* highlights of its result.
Selected(caller, userSettings, status, count, filteredCount, result) ==
  [pc |-> "selected", caller |-> caller, userSettings |-> userSettings,
   status |-> status, count |-> count, filteredCount |-> filteredCount,
   sortedBooks |-> <<>>, highlights |-> result, bookIndex |-> 0]

Done(name, arg, result) == [name |-> name, arg |-> arg, result |-> result]

\* new EmailScheduler(): no dependency is set.
SchedulerNew ==
  [database |-> "null", emailService |-> "null", highlightSelector |-> "null"]

\* EmailScheduler.init(database, emailService, highlightSelector), which
\* initializeEmailSystem calls from handleInstalled.
SchedulerInit ==
  [database |-> "database", emailService |-> "simpleEmailService",
   highlightSelector |-> "highlightSelector"]

\* The state after handleInstalled, a first sync of page at StartTime, and the
\* showing of the highlights shown.
Installed(page, shown) ==
  /\ now = StartTime
  /\ books = StoreBooks({}, ScrapedBooks(Asins, StartTime), StartTime)
  /\ highlights =
       markHighlightsAsShown(
         StoreHighlights({}, ScrapedHighlights(page, StartTime), StartTime),
         shown, StartTime)
  /\ syncHistory =
       addSyncRecord({}, [highlightsAdded |-> Len(page), highlightsTotal |-> Len(page),
                          status |-> "success", errorMessage |-> <<>>], 1, StartTime)
  /\ emailHistory = {}
  /\ uuidSeq = 1
  /\ settings = defaultSettings
  /\ alarms = setupDefaultAlarms(defaultSettings, StartTime)
  /\ sel = Idle
  /\ scheduler = SchedulerInit
  /\ lastOp = Done("init", <<>>, <<>>)

\* The state after handleInstalled, before any sync.
Init ==
  /\ now = StartTime
  /\ books = {}
  /\ highlights = {}
  /\ syncHistory = {}
  /\ emailHistory = {}
  /\ uuidSeq = 0
  /\ settings = defaultSettings
  /\ alarms = setupDefaultAlarms(defaultSettings, StartTime)
  /\ sel = Idle
  /\ scheduler = SchedulerInit
  /\ lastOp = Done("init", <<>>, <<>>)

InitSelect ==
  \E page \in Pages :
    \E shown \in SUBSET {ParsedElements[page[i], StartTime].id : i \in 1..Len(page)} :
      Installed(page, IdList(shown))

InitDeliver == \E page \in Pages : Installed(page, <<>>)

InitSched == Installed(SubSeq(Page, 1, 1), <<>>)

\* The clock advances between handlers; a selection or delivery cycle is over
\* before the clock's next step.
Tick ==
  /\ sel.pc = "idle"
  /\ now + TickStep <= EndTime
  /\ now' = now + TickStep
  /\ lastOp' = Done("tick", <<>>, <<>>)
  /\ UNCHANGED <<scheduler, books, highlights, syncHistory, emailHistory, uuidSeq, settings,
                 alarms, sel>>

StoreScrapedData ==
  \E batch \in Batches, others \in {{}, Asins} :
    LET asins == {batch[i].asin : i \in 1..Len(batch)} \cup others IN
    /\ sel.pc = "idle"
    /\ books' = StoreBooks(books, ScrapedBooks(asins, now), now)
    /\ highlights' = StoreHighlights(highlights, ScrapedHighlights(batch, now), now)
    /\ lastOp' = Done("storeScrapedData", <<>>,
                      Reingested(highlights, ScrapedHighlights(batch, now)))
    /\ UNCHANGED <<scheduler, now, syncHistory, emailHistory, uuidSeq, settings, alarms, sel>>

DeleteBook ==
  \E asin \in {b.asin : b \in books} :
    /\ sel.pc = "idle"
    /\ books' = deleteBook(books, asin)
    /\ lastOp' = Done("deleteBook", asin, <<>>)
    /\ UNCHANGED <<scheduler, now, highlights, syncHistory, emailHistory, uuidSeq, settings,
                   alarms, sel>>

\* cleanup(options): the options that are not given have their defaults.
cleanup(options) ==
  LET orphans == orphanedHighlights(books, highlights)
  IN  /\ sel.pc = "idle"
      /\ syncHistory' = RemoveOldRecords(syncHistory, "syncDate", cleanupHistoryLimit,
                                         Get(options, "maxSyncRecords", maxSyncRecords))
      /\ emailHistory' = RemoveOldRecords(emailHistory, "sentDate", cleanupHistoryLimit,
                                          Get(options, "maxEmailRecords", maxEmailRecords))
      /\ highlights' = DeleteHighlights(highlights, orphans)
      /\ lastOp' = Done("cleanup", options, Len(orphans))
      /\ UNCHANGED <<scheduler, now, books, uuidSeq, settings, alarms, sel>>

\* cleanup with its default options.
Cleanup == cleanup(<<>>)

\* cleanup with retention counts.
CleanupRetention ==
  \E n \in 0..MaxKeep, m \in 0..MaxKeep :
    cleanup([maxSyncRecords |-> n, maxEmailRecords |-> m])

\* importData(exportAllData(), {overwrite: true}), into the same store or into
\* the store after clearAllData.
ExportImport ==
  \E cleared \in BOOLEAN :
    LET exported == exportAllData(books, highlights)
        res == importData(IF cleared THEN {} ELSE books,
                          IF cleared THEN {} ELSE highlights,
                          exported, TRUE, TRUE, now)
    IN  /\ sel.pc = "idle"
        /\ books' = res.books.store
        /\ highlights' = res.highlights.store
        /\ syncHistory' = IF cleared THEN {} ELSE syncHistory
        /\ emailHistory' = IF cleared THEN {} ELSE emailHistory
        /\ lastOp' = Done("exportImport", cleared,
                          res.books.imported + res.highlights.imported)
        /\ UNCHANGED <<scheduler, now, uuidSeq, settings, alarms, sel>>

MarkHighlightsAsShown ==
  \E ids \in SUBSET KnownIds :
    /\ sel.pc = "idle"
    /\ Shows(highlights) + Cardinality({h \in highlights : h.id \in ids}) <= MaxShown
    /\ highlights' = markHighlightsAsShown(highlights, IdList(ids), now)
    /\ lastOp' = Done("markHighlightsAsShown", IdList(ids), <<>>)
    /\ UNCHANGED <<scheduler, now, books, syncHistory, emailHistory, uuidSeq, settings, alarms,
                   sel>>

\* selectHighlights(count, userSettings) up to its return, or up to the loop of
\* selectFromMostHighlightedBooks; a database that cannot be read is status
\* 'error'.
selectHighlights(caller, keep, count, userSettings) ==
  \E opened \in BOOLEAN :
    LET allHighlights == getAllHighlights(highlights)
        filteredHighlights == filterHighlights(allHighlights, userSettings, now)
        algorithm == Get(userSettings, "highlightSelectionMode", "spaced-repetition")
    IN  IF ~opened
        THEN sel' = Selected(caller, keep, "error", count, 0, <<>>)
        ELSE IF Len(filteredHighlights) = 0
        THEN sel' = Selected(caller, keep, "success", count, 0, <<>>)
        ELSE IF algorithm = "most-highlighted"
        THEN IF 0 < count
             THEN sel' = [pc |-> "loop", caller |-> caller, userSettings |-> keep,
                          status |-> "success", count |-> count,
                          filteredCount |-> Len(filteredHighlights),
                          sortedBooks |-> sortedBooks(filteredHighlights),
                          highlights |-> <<>>, bookIndex |-> 0]
             ELSE sel' = Selected(caller, keep, "success", count,
                                  Len(filteredHighlights), <<>>)
        ELSE \E result \in selectByAlgorithm(filteredHighlights, count, algorithm, now) :
               sel' = Selected(caller, keep, "success", count,
                               Len(filteredHighlights), Ids(result))

SelectHighlights ==
  \E count \in Counts, userSettings \in SelectionSettings :
    /\ sel.pc = "idle"
    /\ selectHighlights("selectHighlights", <<>>, count, userSettings)
    /\ lastOp' = Done("selectHighlights", <<>>, "pending")
    /\ UNCHANGED <<scheduler, now, books, highlights, syncHistory, emailHistory, uuidSeq,
                   settings, alarms>>

PreviewSelection ==
  \E count \in Counts, userSettings \in SelectionSettings :
    /\ sel.pc = "idle"
    /\ selectHighlights("previewSelection", <<>>, count, userSettings)
    /\ lastOp' = Done("previewSelection", <<>>, "pending")
    /\ UNCHANGED <<scheduler, now, books, highlights, syncHistory, emailHistory, uuidSeq,
                   settings, alarms>>

\* One pass of the while loop of selectFromMostHighlightedBooks.
SelectFromMostHighlightedBooks ==
  /\ sel.pc = "loop"
  /\ LET bookHighlights == sel.sortedBooks[sel.bookIndex + 1]
         unshown == SelectSeq(bookHighlights, LAMBDA id :
                      \E h \in highlights : h.id = id /\ LastShown(h) = 0)
         pool == IF Len(unshown) > 0 THEN unshown ELSE bookHighlights
     IN  \E random \in 1..Len(pool) :
           LET candidate == pool[random]
               selected == IF ~Includes(sel.highlights, candidate)
                           THEN Append(sel.highlights, candidate)
                           ELSE sel.highlights
               next == sel.bookIndex + 1
               bookIndex == IF next >= Len(sel.sortedBooks) /\ Len(selected) < sel.count
                            THEN 0 ELSE next
           IN  sel' = IF Len(selected) < sel.count /\ bookIndex < Len(sel.sortedBooks)
                      THEN [sel EXCEPT !.highlights = selected, !.bookIndex = bookIndex]
                      ELSE Selected(sel.caller, sel.userSettings, "success", sel.count,
                                    sel.filteredCount, selected)
  /\ UNCHANGED <<scheduler, now, books, highlights, syncHistory, emailHistory, uuidSeq, settings,
                 alarms, lastOp>>

\* A variant of ReturnSelection that records the result as shown.
ReturnSelectionMarking ==
  /\ sel.pc = "selected"
  /\ sel.caller \in {"selectHighlights", "previewSelection"}
  /\ sel' = Idle
  /\ highlights' = markHighlightsAsShown(highlights, sel.highlights, now)
  /\ lastOp' = Done(sel.caller, <<>>, sel.status)
  /\ UNCHANGED <<scheduler, now, books, syncHistory, emailHistory, uuidSeq, settings, alarms>>

\* selectHighlights and previewSelection hand their result to the caller.
ReturnSelection ==
  /\ sel.pc = "selected"
  /\ sel.caller \in {"selectHighlights", "previewSelection"}
  /\ sel' = Idle
  /\ lastOp' = Done(sel.caller, <<>>, sel.status)
  /\ UNCHANGED <<scheduler, now, books, highlights, syncHistory, emailHistory, uuidSeq,
                 settings, alarms>>

\* sendScheduledEmail(userSettings) begins: it awaits selectHighlights.
SendScheduledEmail ==
  \E userSettings \in DeliverySettings :
    LET perEmail == Get(userSettings, "highlightsPerEmail", 0)
    IN  /\ sel.pc = "idle"
        /\ Shows(highlights) + Min(Cardinality(highlights),
                                   IF perEmail = 0 THEN DefaultHighlightsPerEmail
                                   ELSE perEmail) <= MaxShown
        /\ selectHighlights("sendScheduledEmail", userSettings,
                            IF perEmail = 0 THEN DefaultHighlightsPerEmail
                            ELSE perEmail, userSettings)
        /\ lastOp' = Done("sendScheduledEmail", <<>>, <<"pending", "none">>)
        /\ UNCHANGED <<scheduler, now, books, highlights, syncHistory, emailHistory, uuidSeq,
                       settings, alarms>>

\* EmailScheduler.sendEmailNow(userSettings) begins with sendScheduledEmail.
SendEmailNow ==
  \E userSettings \in ScheduleSettings :
    LET perEmail == Get(userSettings, "highlightsPerEmail", 0)
    IN  /\ sel.pc = "idle"
        /\ Shows(highlights) + Min(Cardinality(highlights),
                                   IF perEmail = 0 THEN DefaultHighlightsPerEmail
                                   ELSE perEmail) <= MaxShown
        /\ selectHighlights("sendEmailNow", userSettings,
                            IF perEmail = 0 THEN DefaultHighlightsPerEmail
                            ELSE perEmail, userSettings)
        /\ lastOp' = Done("sendEmailNow", <<>>, <<"pending", "none">>)
        /\ UNCHANGED <<scheduler, now, books, highlights, syncHistory, emailHistory, uuidSeq,
                       settings, alarms>>

\* The rest of sendScheduledEmail once selectHighlights has returned: what it
\* returns is lastOp.result, <<status, status of the email or "none">>.
Delivered(emailStatus, commit) ==
  LET status == IF sel.status # "success" THEN "error"
                ELSE IF Len(sel.highlights) = 0 THEN "success"
                ELSE emailStatus
  IN  /\ highlights' = IF commit
                       THEN markHighlightsAsShown(highlights, sel.highlights, now)
                       ELSE highlights
      /\ alarms' = IF /\ sel.caller = "sendEmailNow"
                      /\ status = "success"
                      /\ Get(sel.userSettings, "emailFrequency", "") # "manual"
                   THEN scheduleEmails(alarms, sel.userSettings, now)
                   ELSE alarms
      /\ sel' = Idle
      /\ lastOp' = Done(sel.caller, <<>>, <<status, emailStatus>>)
      /\ UNCHANGED <<scheduler, now, books, syncHistory, emailHistory, uuidSeq, settings>>

\* A variant of DeliverSelection that marks the selection as shown whatever the
\* email service answers.
DeliverSelectionAlways ==
  /\ sel.pc = "selected"
  /\ sel.caller \in {"sendScheduledEmail", "sendEmailNow"}
  /\ IF sel.status # "success" \/ Len(sel.highlights) = 0
     THEN Delivered("none", FALSE)
     ELSE \E emailStatus \in {"success", "error"} : Delivered(emailStatus, TRUE)

DeliverSelection ==
  /\ sel.pc = "selected"
  /\ sel.caller \in {"sendScheduledEmail", "sendEmailNow"}
  /\ IF sel.status # "success" \/ Len(sel.highlights) = 0
     THEN Delivered("none", FALSE)
     ELSE \E emailStatus \in {"success", "error"} :
            Delivered(emailStatus, emailStatus = "success")

ScheduleEmails ==
  \E userSettings \in ScheduleSettings :
    /\ sel.pc = "idle"
    /\ alarms' = scheduleEmails(alarms, userSettings, now)
    /\ lastOp' = Done("scheduleEmails", userSettings, <<>>)
    /\ UNCHANGED <<scheduler, now, books, highlights, syncHistory, emailHistory, uuidSeq,
                   settings, sel>>

UpdateSchedule ==
  \E newSettings \in ScheduleSettings :
    /\ sel.pc = "idle"
    /\ alarms' = updateSchedule(alarms, newSettings, now)
    /\ lastOp' = Done("updateSchedule", newSettings, <<>>)
    /\ UNCHANGED <<scheduler, now, books, highlights, syncHistory, emailHistory, uuidSeq,
                   settings, sel>>

SetupDefaultAlarms ==
  /\ sel.pc = "idle"
  /\ alarms' = setupDefaultAlarms(settings, now)
  /\ lastOp' = Done("setupDefaultAlarms", <<>>, <<>>)
  /\ UNCHANGED <<scheduler, now, books, highlights, syncHistory, emailHistory, uuidSeq,
                 settings, sel>>

\* handleStartup.
RestoreAlarms ==
  /\ sel.pc = "idle"
  /\ alarms' = restoreAlarms(alarms, settings, now)
  /\ lastOp' = Done("restoreAlarms", <<>>, <<>>)
  /\ UNCHANGED <<scheduler, now, books, highlights, syncHistory, emailHistory, uuidSeq,
                 settings, sel>>

\* The message 'save-settings'.
SaveSettings ==
  \E newSettings \in SettingsMessages :
    /\ sel.pc = "idle"
    /\ settings' = SavedSettings(settings, newSettings)
    /\ alarms' = SavedAlarms(alarms, settings, newSettings, now)
    /\ lastOp' = Done("saveSettings", newSettings, <<>>)
    /\ UNCHANGED <<scheduler, now, books, highlights, syncHistory, emailHistory, uuidSeq, sel>>

Updates == { [color |-> "blue", tags |-> <<"important">>], [timesShown |-> 0] }

\* The lists of ids a bulk call names: up to MaxBatch ids, of stored highlights
\* or the id that is never stored.
BulkIds ==
  {ids \in SUBSET ({h.id : h \in highlights} \cup {MissingId}) :
     Cardinality(ids) <= MaxBatch}

BulkUpdateHighlights ==
  \E ids \in BulkIds, updates \in Updates :
    \E failed \in {<<>>} \cup ids :
      LET res == bulkUpdateHighlights(highlights, IdList(ids), updates, failed)
      IN  /\ sel.pc = "idle"
          /\ highlights' = res.store
          /\ lastOp' = Done("bulkUpdateHighlights",
                            [highlightIds |-> IdList(ids), updates |-> updates,
                             failed |-> failed],
                            res.result)
          /\ UNCHANGED <<scheduler, now, books, syncHistory, emailHistory, uuidSeq, settings,
                         alarms, sel>>

BulkDeleteHighlights ==
  \E ids \in BulkIds :
    LET res == bulkDeleteHighlights(highlights, IdList(ids))
    IN  /\ sel.pc = "idle"
        /\ highlights' = res.store
        /\ lastOp' = Done("bulkDeleteHighlights", IdList(ids), res.result)
        /\ UNCHANGED <<scheduler, now, books, syncHistory, emailHistory, uuidSeq, settings,
                       alarms, sel>>

\* The pages trySyncOnTab scrapes: the first elements of the page, up to
\* MaxBatch of them.
SyncPages == {SubSeq(Page, 1, n) : n \in 0..Min(MaxBatch, Len(Page))}

\* The snapshots a user imports: exports of another store, which was synced at
\* SnapshotTime from the first MaxBatch elements of the page, with the version
\* exportAllData writes or with another.
SnapshotTime == StartTime - HourMinutes

Versions == {"1.0", "2.0"}

Snapshot(page, version) ==
  LET bs == StoreBooks({}, ScrapedBooks(Asins, SnapshotTime), SnapshotTime)
      hs == StoreHighlights({}, [i \in 1..Len(page) |->
                                  createHighlightObject(page[i], SnapshotTime)],
                            SnapshotTime)
  IN  [exportAllData(bs, hs) EXCEPT !.version = version]

Snapshots ==
  {Snapshot(SubSeq(Page, 1, Min(MaxBatch, Len(Page))), version) : version \in Versions}

ImportData ==
  \E import \in Snapshots, overwrite \in BOOLEAN, skipDuplicates \in BOOLEAN :
    LET res == importData(books, highlights, import, overwrite, skipDuplicates, now)
    IN  /\ sel.pc = "idle"
        /\ books' = res.books.store
        /\ highlights' = res.highlights.store
        /\ lastOp' = Done("importData",
                          [import |-> import, overwrite |-> overwrite,
                           skipDuplicates |-> skipDuplicates],
                          Resolved(ImportResults(res)))
        /\ UNCHANGED <<scheduler, now, syncHistory, emailHistory, uuidSeq, settings, alarms, sel>>

\* The elements of list at the indexes that are not in failed.
RECURSIVE Stored(_, _, _)
Stored(list, failed, i) ==
  IF i > Len(list) THEN <<>>
  ELSE (IF i \in failed THEN <<>> ELSE <<list[i]>>) \o Stored(list, failed, i + 1)

\* A variant of SyncData that reports every batch as a success.
SyncDataSuccess(storeResult, highlightsTotal) ==
  [highlightsAdded |-> storeResult.highlightsAdded,
   highlightsTotal |-> highlightsTotal,
   status |-> "success",
   errorMessage |-> <<>>]

\* recordSyncHistory's record of a batch of highlightsTotal highlights.
SyncData(storeResult, highlightsTotal) ==
  [highlightsAdded |-> storeResult.highlightsAdded,
   highlightsTotal |-> highlightsTotal,
   status |-> IF storeResult.errors > 0 THEN "partial" ELSE "success",
   errorMessage |-> IF storeResult.errors > 0
                    THEN <<storeResult.errors, "items failed to store">>
                    ELSE <<>>]

\* updateSyncStats: saveSettings of the settings with the new stats, which sets
\* up the alarms again when the settings have a syncFrequency or enableAutoSync.
SyncStats(st, totalBooks, totalHighlights, t) ==
  Spread(st, [lastSyncTime |-> t, totalBooks |-> totalBooks,
              totalHighlights |-> totalHighlights])

\* trySyncOnTab has the content script's response: storeScrapedData stores the
\* books, each in a transaction of its own; the books at the indexes failedBooks
\* fail to store.
StoreScrapedBooks ==
  \E page \in SyncPages, others \in {{}, Asins} :
    LET asins == {page[i].asin : i \in 1..Len(page)} \cup others
        scraped == ScrapedBooks(asins, now)
    IN  \E failedBooks \in {{}} \cup {{i} : i \in 1..Len(scraped)} :
          /\ sel.pc \in {"idle", "performSyncWithRetry"}
          /\ Cardinality(syncHistory) < MaxSyncs
          /\ books' = StoreBooks(books, Stored(scraped, failedBooks, 1), now)
          /\ sel' = [pc |-> "sync", caller |-> "trySyncOnTab", books |-> scraped,
                     failedBooks |-> failedBooks, highlights |-> page]
          /\ lastOp' = Done("trySyncOnTab", <<>>, <<>>)
          /\ UNCHANGED <<scheduler, now, highlights, syncHistory, emailHistory, uuidSeq,
                         settings, alarms>>

\* The rest of trySyncOnTab: storeScrapedData stores the highlights, the ones
\* at the indexes failedHighlights fail to store; then recordSyncHistory and
\* updateSyncStats.
StoreScrapedHighlights ==
  \E failedHighlights \in SUBSET (1..Len(sel.highlights)) :
    LET scraped == ScrapedHighlights(sel.highlights, now)
        stored == Stored(scraped, failedHighlights, 1)
        storeResult ==
          [booksAdded |-> Len(sel.books) - Cardinality(sel.failedBooks),
           highlightsAdded |-> Len(stored),
           errors |-> Cardinality(sel.failedBooks) + Cardinality(failedHighlights)]
        newSettings == SyncStats(settings, Len(sel.books), Len(scraped), now)
    IN  /\ sel.pc = "sync"
        /\ highlights' = StoreHighlights(highlights, stored, now)
        /\ syncHistory' = addSyncRecord(syncHistory, SyncData(storeResult, Len(scraped)),
                                        uuidSeq + 1, now)
        /\ uuidSeq' = uuidSeq + 1
        /\ settings' = newSettings
        /\ alarms' = IF \/ Get(newSettings, "syncFrequency", 0) # 0
                        \/ Get(newSettings, "enableAutoSync", FALSE)
                     THEN setupDefaultAlarms(newSettings, now)
                     ELSE alarms
        /\ sel' = Idle
        /\ lastOp' = Done("trySyncOnTab",
                          [books |-> sel.books, failedBooks |-> sel.failedBooks,
                           highlights |-> scraped, failedHighlights |-> failedHighlights],
                          storeResult)
        /\ UNCHANGED <<scheduler, now, books, emailHistory>>

\* The numbers of showings a highlight can have: every index of the ladder of
\* intervals, and one beyond.
ShownCounts == 0..Len(spacedRepetitionIntervals)

\* The times a highlight can have been shown last, at t: the clock's earlier
\* steps and the first minute.
ShownTimes(t) == {1} \cup {x \in Times : x <= t}

\* selectBySpacedRepetition scores a stored highlight as it is after timesShown
\* showings, once with the earlier and once with the later lastShown, before
\* the random tie break.
CalculateSpacedRepetitionScore ==
  \E h \in highlights, timesShown \in ShownCounts :
    \E older \in ShownTimes(now), newer \in ShownTimes(now) :
      /\ sel.pc = "idle"
      /\ older < newer
      /\ lastOp' = Done("calculateSpacedRepetitionScore",
                        [id |-> h.id, timesShown |-> timesShown,
                         older |-> older, newer |-> newer],
                        [older |-> calculateSpacedRepetitionScore(
                                     Spread(h, [timesShown |-> timesShown,
                                                lastShown |-> older]), now, 0),
                         newer |-> calculateSpacedRepetitionScore(
                                     Spread(h, [timesShown |-> timesShown,
                                                lastShown |-> newer]), now, 0)])
      /\ UNCHANGED <<scheduler, now, books, highlights, syncHistory, emailHistory, uuidSeq,
                     settings, alarms, sel>>

(***************************************************************************)
(* markHighlightsAsShown step by step.  Each await is a transaction of its *)
(* own: getHighlight, then updateHighlight's getHighlight, then its put.   *)
(* While calls are in progress sel is [pc |-> "marking", calls, before]:   *)
(* each call with its ids, the index i of the id it is at, the step it is  *)
(* about to take, the highlight it has read and the record it will put;    *)
(* before is the store when the first of the calls began.                  *)
(***************************************************************************)
\* The lists of ids a call names: up to MaxBatch ids, of stored highlights or
\* the id that is never stored.
MarkLists ==
  {IdList(ids) : ids \in {s \in SUBSET ({h.id : h \in highlights} \cup {MissingId}) :
                            s # {} /\ Cardinality(s) <= MaxBatch}}

\* The for loop goes on to the next id, or the call returns.
NextId(call) ==
  IF call.i < Len(call.ids)
  THEN [call EXCEPT !.i = call.i + 1, !.pc = "get"]
  ELSE [call EXCEPT !.pc = "done"]

\* A caller calls markHighlightsAsShown(highlightIds), while no call or other
\* calls are in progress.
MarkBegin ==
  \E highlightIds \in MarkLists :
    LET calls == IF sel.pc = "marking" THEN sel.calls ELSE <<>>
        call == [ids |-> highlightIds, i |-> 1, pc |-> "get", status |-> "success",
                 highlight |-> <<>>, updated |-> <<>>]
    IN  /\ sel.pc \in {"idle", "marking"}
        /\ Len(calls) < MaxCalls
        /\ Shows(highlights) + Len(highlightIds) <= MaxShown
        /\ sel' = [pc |-> "marking", caller |-> "markHighlightsAsShown",
                   calls |-> Append(calls, call),
                   before |-> IF sel.pc = "marking" THEN sel.before ELSE highlights]
        /\ lastOp' = Done("markHighlightsAsShown", highlightIds, <<>>)
        /\ UNCHANGED <<scheduler, now, books, highlights, syncHistory, emailHistory, uuidSeq,
                       settings, alarms>>

\* await this.database.getHighlight(id)
MarkGet ==
  /\ sel.pc = "marking"
  /\ \E c \in DOMAIN sel.calls :
       LET call == sel.calls[c]
           found == StoreGet(highlights, "id", call.ids[call.i])
       IN  /\ call.pc = "get"
           /\ sel' = [sel EXCEPT !.calls[c] =
                        IF found = {} THEN NextId(call)
                        ELSE [call EXCEPT !.pc = "updateGet",
                                          !.highlight = CHOOSE h \in found : TRUE]]
  /\ UNCHANGED <<scheduler, now, books, highlights, syncHistory, emailHistory, uuidSeq, settings,
                 alarms, lastOp>>

\* updateHighlight: await this.getHighlight(id); it throws when the highlight
\* is not stored, and markHighlightsAsShown then returns status 'error'.
MarkUpdateGet ==
  /\ sel.pc = "marking"
  /\ \E c \in DOMAIN sel.calls :
       LET call == sel.calls[c]
           found == StoreGet(highlights, "id", call.ids[call.i])
           updates == [lastShown |-> now, timesShown |-> TimesShown(call.highlight) + 1]
       IN  /\ call.pc = "updateGet"
           /\ sel' = [sel EXCEPT !.calls[c] =
                        IF found = {} THEN [call EXCEPT !.pc = "done", !.status = "error"]
                        ELSE [call EXCEPT !.pc = "put",
                                          !.updated = Spread(CHOOSE h \in found : TRUE,
                                                             updates)]]
  /\ UNCHANGED <<scheduler, now, books, highlights, syncHistory, emailHistory, uuidSeq, settings,
                 alarms, lastOp>>

\* updateHighlight: store.put(updatedHighlight)
MarkUpdatePut ==
  /\ sel.pc = "marking"
  /\ \E c \in DOMAIN sel.calls :
       LET call == sel.calls[c]
       IN  /\ call.pc = "put"
           /\ highlights' = StorePut(highlights, "id", call.updated)
           /\ sel' = [sel EXCEPT !.calls[c] = NextId(call)]
  /\ UNCHANGED <<scheduler, now, books, syncHistory, emailHistory, uuidSeq, settings, alarms,
                 lastOp>>

\* Every call in progress has returned.
MarkReturn ==
  /\ sel.pc = "marking"
  /\ \A c \in DOMAIN sel.calls : sel.calls[c].pc = "done"
  /\ sel' = Idle
  /\ lastOp' = Done("markHighlightsAsShown",
                    [c \in DOMAIN sel.calls |-> sel.calls[c].ids],
                    [c \in DOMAIN sel.calls |-> sel.calls[c].status])
  /\ UNCHANGED <<scheduler, now, books, highlights, syncHistory, emailHistory, uuidSeq,
                 settings, alarms>>

(***************************************************************************)
(* The reminder alarm's handler step by step.  handleAlarm calls           *)
(* handleAlarmTriggered for every firing, whatever is in progress.  While  *)
(* firings are being handled sel is [pc |-> "cycles", cycles]: each cycle  *)
(* with the await it is at, the settings it has read, the ids it has       *)
(* selected and its status.                                                *)
(***************************************************************************)
\* The service worker is started again after it was stopped: the scripts run
\* again, and the new EmailScheduler has no dependency until init is called.
ServiceWorkerStart ==
  /\ sel.pc = "idle"
  /\ scheduler' = SchedulerNew
  /\ lastOp' = Done("serviceWorkerStart", <<>>, <<>>)
  /\ UNCHANGED <<now, books, highlights, syncHistory, emailHistory, uuidSeq, settings,
                 alarms, sel>>

EndCycle(cycle, status) == [cycle EXCEPT !.pc = "done", !.status = status]

\* chrome.alarms fires the reminder alarm: handleAlarm, handleAlarmTriggered.
HandleAlarmTriggered ==
  LET cycles == IF sel.pc = "cycles" THEN sel.cycles ELSE <<>>
      perEmail == Get(settings, "highlightsPerEmail", 0)
  IN  /\ sel.pc \in {"idle", "cycles"}
      /\ ReminderAlarms(alarms) # {}
      /\ Len(cycles) < MaxCalls
      /\ Shows(highlights) + Min(Cardinality(highlights),
                                 IF perEmail = 0 THEN DefaultHighlightsPerEmail
                                 ELSE perEmail) <= MaxShown
      /\ sel' = [pc |-> "cycles", caller |-> "handleAlarmTriggered",
                 cycles |-> Append(cycles, [pc |-> "getUserSettings",
                                            userSettings |-> <<>>,
                                            highlights |-> <<>>,
                                            status |-> "pending"])]
      /\ lastOp' = Done("handleAlarmTriggered", <<>>, <<>>)
      /\ UNCHANGED <<scheduler, now, books, highlights, syncHistory, emailHistory,
                     uuidSeq, settings, alarms>>

\* await this.getUserSettings(): null when the storage cannot be read, and
\* handleAlarmTriggered throws.
CycleGetUserSettings ==
  /\ sel.pc = "cycles"
  /\ \E c \in DOMAIN sel.cycles, read \in BOOLEAN :
       LET cycle == sel.cycles[c]
       IN  /\ cycle.pc = "getUserSettings"
           /\ sel' = [sel EXCEPT !.cycles[c] =
                        IF read
                        THEN [cycle EXCEPT !.pc = "selectHighlights",
                                           !.userSettings = settings]
                        ELSE EndCycle(cycle, "error")]
  /\ UNCHANGED <<scheduler, now, books, highlights, syncHistory, emailHistory, uuidSeq,
                 settings, alarms, lastOp>>

\* sendScheduledEmail: await this.highlightSelector.selectHighlights(...), by
\* an algorithm other than most-highlighted.  A scheduler without its
\* highlightSelector throws a TypeError, which sendScheduledEmail catches.
CycleSelectHighlights ==
  /\ sel.pc = "cycles"
  /\ \E c \in DOMAIN sel.cycles, opened \in BOOLEAN :
       LET cycle == sel.cycles[c]
           perEmail == Get(cycle.userSettings, "highlightsPerEmail", 0)
           count == IF perEmail = 0 THEN DefaultHighlightsPerEmail ELSE perEmail
           filteredHighlights ==
             filterHighlights(getAllHighlights(highlights), cycle.userSettings, now)
           algorithm == Get(cycle.userSettings, "highlightSelectionMode",
                            "spaced-repetition")
       IN  /\ cycle.pc = "selectHighlights"
           /\ IF scheduler.highlightSelector = "null" \/ ~opened
              THEN sel' = [sel EXCEPT !.cycles[c] = EndCycle(cycle, "error")]
              ELSE IF Len(filteredHighlights) = 0
              THEN sel' = [sel EXCEPT !.cycles[c] = EndCycle(cycle, "success")]
              ELSE \E result \in selectByAlgorithm(filteredHighlights, count,
                                                   algorithm, now) :
                     sel' = [sel EXCEPT !.cycles[c] =
                              [cycle EXCEPT !.pc = "sendHighlightEmail",
                                            !.highlights = Ids(result)]]
  /\ UNCHANGED <<scheduler, now, books, highlights, syncHistory, emailHistory, uuidSeq,
                 settings, alarms, lastOp>>

\* A variant of CycleSendHighlightEmail that clears the reminder alarm when the
\* email service fails.
CycleSendHighlightEmailClearing ==
  /\ sel.pc = "cycles"
  /\ \E c \in DOMAIN sel.cycles, emailStatus \in {"success", "error"} :
       LET cycle == sel.cycles[c]
       IN  /\ cycle.pc = "sendHighlightEmail"
           /\ sel' = [sel EXCEPT !.cycles[c] =
                        IF scheduler.emailService # "null" /\ emailStatus = "success"
                        THEN [cycle EXCEPT !.pc = "markHighlightsAsShown"]
                        ELSE EndCycle(cycle, "error")]
           /\ alarms' = IF scheduler.emailService # "null" /\ emailStatus = "success"
                        THEN alarms ELSE clearScheduledEmails(alarms)
  /\ UNCHANGED <<scheduler, now, books, highlights, syncHistory, emailHistory, uuidSeq,
                 settings, lastOp>>

\* sendScheduledEmail: await this.emailService.sendHighlightEmail(...)
CycleSendHighlightEmail ==
  /\ sel.pc = "cycles"
  /\ \E c \in DOMAIN sel.cycles, emailStatus \in {"success", "error"} :
       LET cycle == sel.cycles[c]
       IN  /\ cycle.pc = "sendHighlightEmail"
           /\ sel' = [sel EXCEPT !.cycles[c] =
                        IF scheduler.emailService # "null" /\ emailStatus = "success"
                        THEN [cycle EXCEPT !.pc = "markHighlightsAsShown"]
                        ELSE EndCycle(cycle, "error")]
  /\ UNCHANGED <<scheduler, now, books, highlights, syncHistory, emailHistory, uuidSeq,
                 settings, alarms, lastOp>>

\* sendScheduledEmail: await this.highlightSelector.markHighlightsAsShown(ids)
CycleMarkHighlightsAsShown ==
  /\ sel.pc = "cycles"
  /\ \E c \in DOMAIN sel.cycles :
       LET cycle == sel.cycles[c]
       IN  /\ cycle.pc = "markHighlightsAsShown"
           /\ highlights' = markHighlightsAsShown(highlights, cycle.highlights, now)
           /\ sel' = [sel EXCEPT !.cycles[c] = EndCycle(cycle, "success")]
  /\ UNCHANGED <<scheduler, now, books, syncHistory, emailHistory, uuidSeq, settings,
                 alarms, lastOp>>

\* Every firing in progress has been handled.
CycleReturn ==
  /\ sel.pc = "cycles"
  /\ \A c \in DOMAIN sel.cycles : sel.cycles[c].pc = "done"
  /\ sel' = Idle
  /\ lastOp' = Done("handleAlarmTriggered", <<>>,
                    [c \in DOMAIN sel.cycles |-> sel.cycles[c].status])
  /\ UNCHANGED <<scheduler, now, books, highlights, syncHistory, emailHistory, uuidSeq,
                 settings, alarms>>

Next ==
  \/ Tick
  \/ StoreScrapedData
  \/ DeleteBook
  \/ Cleanup
  \/ ExportImport

Spec == Init /\ [][Next]_vars

NextSelect ==
  \/ Tick
  \/ SelectHighlights
  \/ PreviewSelection
  \/ SelectFromMostHighlightedBooks
  \/ ReturnSelection

SpecSelect == InitSelect /\ [][NextSelect]_vars

NextDeliver ==
  \/ Tick
  \/ MarkHighlightsAsShown
  \/ SendScheduledEmail
  \/ SelectFromMostHighlightedBooks
  \/ DeliverSelection

SpecDeliver == InitDeliver /\ [][NextDeliver]_vars

NextSched ==
  \/ Tick
  \/ ScheduleEmails
  \/ UpdateSchedule
  \/ SetupDefaultAlarms
  \/ RestoreAlarms
  \/ SaveSettings
  \/ SendEmailNow
  \/ SelectFromMostHighlightedBooks
  \/ DeliverSelection

SpecSched == InitSched /\ [][NextSched]_vars

NextBulk ==
  \/ BulkUpdateHighlights
  \/ BulkDeleteHighlights

SpecBulk == InitDeliver /\ [][NextBulk]_vars

NextImport ==
  \/ Tick
  \/ ImportData

SpecImport == InitDeliver /\ [][NextImport]_vars

NextSync ==
  \/ StoreScrapedBooks
  \/ StoreScrapedHighlights

SpecSync == Init /\ [][NextSync]_vars

\* The histories after count syncs, two of them in each minute up to StartTime,
\* and after count emails.
SyncRecords(count) ==
  {[id |-> i, syncDate |-> StartTime - ((count - i) \div 2), highlightsAdded |-> 0,
    highlightsTotal |-> 0, status |-> "success", errorMessage |-> <<>>] :
     i \in 1..count}

EmailRecords(count) ==
  {[id |-> i, sentDate |-> StartTime - ((count - i) \div 2), highlightIds |-> <<>>,
    status |-> "sent"] : i \in 1..count}

\* The numbers of records a history holds: few, or more than cleanup reads.
HistorySizes == (0..(MaxKeep + 1)) \cup {cleanupHistoryLimit + 1}

InitRetention ==
  \E syncs \in HistorySizes, emails \in 0..(MaxKeep + 1) :
    /\ syncs > MaxKeep + 1 => emails = 0
    /\ now = StartTime
    /\ books = {}
    /\ highlights = {}
    /\ syncHistory = SyncRecords(syncs)
    /\ emailHistory = EmailRecords(emails)
    /\ uuidSeq = syncs + emails
    /\ settings = defaultSettings
    /\ alarms = setupDefaultAlarms(defaultSettings, StartTime)
    /\ sel = Idle
    /\ scheduler = SchedulerInit
    /\ lastOp = Done("init", <<>>, <<>>)

NextRetention ==
  \/ Cleanup
  \/ CleanupRetention

SpecRetention == InitRetention /\ [][NextRetention]_vars

\* The operations that write timesShown and lastShown, or records that carry
\* them, when no write to the store fails.
NextShown ==
  \/ StoreScrapedBooks /\ sel'.failedBooks = {}
  \/ StoreScrapedHighlights /\ lastOp'.arg.failedHighlights = {}
  \/ MarkHighlightsAsShown
  \/ BulkUpdateHighlights /\ lastOp'.arg.failed = <<>>
  \/ ImportData

SpecShown == InitSched /\ [][NextShown]_vars

NextScore ==
  \/ Tick
  \/ CalculateSpacedRepetitionScore

SpecScore == InitDeliver /\ [][NextScore]_vars

NextMark ==
  \/ MarkBegin
  \/ MarkGet
  \/ MarkUpdateGet
  \/ MarkUpdatePut
  \/ MarkReturn

SpecMark == InitDeliver /\ [][NextMark]_vars

NextCycle ==
  \/ ServiceWorkerStart
  \/ RestoreAlarms
  \/ HandleAlarmTriggered
  \/ CycleGetUserSettings
  \/ CycleSelectHighlights
  \/ CycleSendHighlightEmail
  \/ CycleMarkHighlightsAsShown
  \/ CycleReturn

SpecCycle == InitDeliver /\ [][NextCycle]_vars

(***************************************************************************)
(* Retries.  ErrorRecovery.withRetry runs an operation up to maxRetries    *)
(* times, waiting calculateBackoffDelay(attempt) milliseconds after a      *)
(* failed attempt that is not the last.  While it runs sel is              *)
(* [pc |-> "withRetry", attempt, invoked, delays]: the loop's variable,    *)
(* how many times the operation was invoked, and the delays waited.        *)
(* performSyncOnTab calls performSyncWithRetry(tabId, 3), which calls      *)
(* trySyncOnTab once per attempt; while it runs sel is                     *)
(* [pc |-> "performSyncWithRetry", attempt, maxRetries, tried, delays].    *)
(* A message is the sequence of the pieces of its text.                    *)
(***************************************************************************)
\* this.maxRetries = 3
maxRetries == 3

\* this.backoffMultiplier = 2
backoffMultiplier == 2

\* The attempts calculateBackoffDelay is asked about.
MaxAttempt == 6

\* this.performSyncWithRetry(tabId, 3)
SyncRetries == 3

calculateBackoffDelayUncapped(attempt) == 1000 * (backoffMultiplier ^ (attempt - 1))

\* Math.min(1000 * Math.pow(2, attempt - 1), 10000)
calculateBackoffDelay(attempt) ==
  Min(1000 * (backoffMultiplier ^ (attempt - 1)), 10000)

ConnectionText == "Could not establish connection"

\* chrome.runtime.lastError.message, when sendMessage fails.
LastErrors ==
  {<<ConnectionText, ". Receiving end does not exist.">>,
   <<"The message port closed before a response was received.">>}

\* What trySyncOnTab returns when it stores nothing: the content script does
\* not answer the ping, sendMessage fails, there is no response, or the
\* content script's response is not a success.
TrySyncResults ==
  {[status |-> "error", message |-> <<"Content script not available on this tab">>],
   [status |-> "error",
    message |-> <<"No response from content script. Make sure you are on the Amazon Kindle notebook page.">>],
   [status |-> "not_implemented",
    message |-> <<"Scraping will be implemented in Milestone 2">>]}
  \cup {[status |-> "error",
         message |-> <<"Failed to communicate with content script: ">> \o e] :
          e \in LastErrors}

\* withRetry(operation, operationType, context) is called.
WithRetry ==
  /\ sel.pc = "idle"
  /\ sel' = [pc |-> "withRetry", caller |-> "withRetry", attempt |-> 1,
             invoked |-> 0, delays |-> <<>>, highlights |-> <<>>]
  /\ lastOp' = Done("withRetry", <<>>, <<>>)
  /\ UNCHANGED <<scheduler, now, books, highlights, syncHistory, emailHistory, uuidSeq,
                 settings, alarms>>

\* One pass of withRetry's for loop: await operation() returns or throws.
\* A success returns at once; a failure waits and goes on to the next
\* attempt, or after the last attempt the loop ends and the failure result is
\* returned.
WithRetryAttempt ==
  \E ok \in BOOLEAN :
    /\ sel.pc = "withRetry"
    /\ sel.attempt <= maxRetries
    /\ IF ok
       THEN /\ sel' = Idle
            /\ lastOp' = Done("withRetry",
                              [invoked |-> sel.invoked + 1, delays |-> sel.delays],
                              [success |-> TRUE, attempts |-> sel.attempt])
       ELSE IF sel.attempt < maxRetries
       THEN /\ sel' = [sel EXCEPT !.attempt = sel.attempt + 1,
                                  !.invoked = sel.invoked + 1,
                                  !.delays = Append(sel.delays,
                                                    calculateBackoffDelay(sel.attempt))]
            /\ lastOp' = lastOp
       ELSE /\ sel' = Idle
            /\ lastOp' = Done("withRetry",
                              [invoked |-> sel.invoked + 1, delays |-> sel.delays],
                              [success |-> FALSE, attempts |-> maxRetries])
    /\ UNCHANGED <<scheduler, now, books, highlights, syncHistory, emailHistory, uuidSeq,
                   settings, alarms>>

\* calculateBackoffDelay(attempt), for every attempt up to MaxAttempt.
CalculateBackoffDelay ==
  \E attempt \in 1..MaxAttempt :
    /\ sel.pc = "idle"
    /\ lastOp' = Done("calculateBackoffDelay", [attempt |-> attempt],
                      [delay |-> calculateBackoffDelay(attempt)])
    /\ UNCHANGED <<scheduler, now, books, highlights, syncHistory, emailHistory, uuidSeq,
                   settings, alarms, sel>>

\* performSyncOnTab(tabId)
PerformSyncOnTab ==
  /\ sel.pc = "idle"
  /\ Cardinality(syncHistory) < MaxSyncs
  /\ sel' = [pc |-> "performSyncWithRetry", caller |-> "performSyncOnTab",
             attempt |-> 1, maxRetries |-> SyncRetries, tried |-> 0, delays |-> <<>>,
             highlights |-> <<>>]
  /\ lastOp' = Done("performSyncWithRetry", <<>>, <<>>)
  /\ UNCHANGED <<scheduler, now, books, highlights, syncHistory, emailHistory, uuidSeq,
                 settings, alarms>>

\* One pass of performSyncWithRetry's for loop in which trySyncOnTab stores
\* nothing (a trySyncOnTab that stores is StoreScrapedBooks and
\* StoreScrapedHighlights).  The result is returned unless it is the error
\* that says the connection could not be established; then the last attempt
\* returns an error of its own, and an earlier one waits
\* (attempt + 1) * 2000 at the start of the next pass.
TrySyncOnTabFails ==
  \E result \in TrySyncResults :
    LET arg == [tried |-> sel.tried + 1, delays |-> sel.delays]
    IN  /\ sel.pc = "performSyncWithRetry"
        /\ sel.attempt <= sel.maxRetries
        /\ IF result.status # "error" \/ ~Includes(result.message, ConnectionText)
           THEN /\ sel' = Idle
                /\ lastOp' = Done("performSyncWithRetry", arg, result)
           ELSE IF sel.attempt = sel.maxRetries
           THEN /\ sel' = Idle
                /\ lastOp' = Done("performSyncWithRetry", arg,
                                  [status |-> "error",
                                   message |-> <<"Content script failed to load after multiple attempts. Please refresh the Amazon page and try again.">>])
           ELSE /\ sel' = [sel EXCEPT !.attempt = sel.attempt + 1,
                                      !.tried = sel.tried + 1,
                                      !.delays = Append(sel.delays,
                                                        (sel.attempt + 1) * 2000)]
                /\ lastOp' = lastOp
        /\ UNCHANGED <<scheduler, now, books, highlights, syncHistory, emailHistory,
                       uuidSeq, settings, alarms>>

NextRetry ==
  \/ WithRetry
  \/ WithRetryAttempt
  \/ CalculateBackoffDelay
  \/ PerformSyncOnTab
  \/ TrySyncOnTabFails
  \/ StoreScrapedBooks /\ sel'.failedBooks = {}
  \/ StoreScrapedHighlights /\ lastOp'.arg.failedHighlights = {}

\* Every await of the two loops resolves: the operation returns or throws,
\* the timers fire, and sendMessage calls back.
SpecRetry ==
  /\ InitDeliver
  /\ [][NextRetry]_vars
  /\ WF_vars(WithRetryAttempt)
  /\ WF_vars(TrySyncOnTabFails \/ StoreScrapedBooks)
  /\ WF_vars(StoreScrapedHighlights)

(***************************************************************************)
(* storeScrapedData step by step.  Each await database.addBook(cleanBook)  *)
(* and each await database.addHighlight(highlight) is a transaction of its *)
(* own, and the readers' transactions run between them.  While a batch is  *)
(* being stored sel is [pc |-> "storing", books, highlights, b, h, errors, *)
(* before]: the scraped lists, the indexes of the next book and the next   *)
(* highlight, how many items failed to store, and the two stores when the  *)
(* batch began.                                                            *)
(***************************************************************************)
\* trySyncOnTab has the content script's response and calls storeScrapedData.
StoreBegin ==
  \E page \in SyncPages :
    LET asins == {page[i].asin : i \in 1..Len(page)}
    IN  /\ sel.pc = "idle"
        /\ Cardinality(syncHistory) < MaxSyncs
        /\ sel' = [pc |-> "storing", caller |-> "trySyncOnTab",
                   books |-> ScrapedBooks(asins, now),
                   highlights |-> ScrapedHighlights(page, now),
                   b |-> 1, h |-> 1, errors |-> 0,
                   before |-> [books |-> books, highlights |-> highlights]]
        /\ lastOp' = Done("storeScrapedData", <<>>, <<>>)
        /\ UNCHANGED <<scheduler, now, books, highlights, syncHistory, emailHistory,
                       uuidSeq, settings, alarms>>

\* await database.addBook(cleanBook), which stores the book or throws.
StoreAddBook ==
  \E ok \in BOOLEAN :
    /\ sel.pc = "storing"
    /\ sel.b <= Len(sel.books)
    /\ books' = IF ok THEN addBook(books, sel.books[sel.b], now) ELSE books
    /\ sel' = [sel EXCEPT !.b = sel.b + 1,
                          !.errors = IF ok THEN sel.errors ELSE sel.errors + 1]
    /\ UNCHANGED <<scheduler, now, highlights, syncHistory, emailHistory, uuidSeq,
                   settings, alarms, lastOp>>

\* await database.addHighlight(highlight), after the loop over the books.
StoreAddHighlight ==
  \E ok \in BOOLEAN :
    /\ sel.pc = "storing"
    /\ sel.b > Len(sel.books)
    /\ sel.h <= Len(sel.highlights)
    /\ highlights' = IF ok THEN addHighlight(highlights, sel.highlights[sel.h], now)
                     ELSE highlights
    /\ sel' = [sel EXCEPT !.h = sel.h + 1,
                          !.errors = IF ok THEN sel.errors ELSE sel.errors + 1]
    /\ UNCHANGED <<scheduler, now, books, syncHistory, emailHistory, uuidSeq,
                   settings, alarms, lastOp>>

\* storeScrapedData returns its results; recordSyncHistory and updateSyncStats.
StoreEnd ==
  LET storeResult ==
        [booksAdded |-> Len(sel.books), highlightsAdded |-> Len(sel.highlights),
         errors |-> sel.errors]
      newSettings == SyncStats(settings, Len(sel.books), Len(sel.highlights), now)
  IN  /\ sel.pc = "storing"
      /\ sel.b > Len(sel.books)
      /\ sel.h > Len(sel.highlights)
      /\ syncHistory' = addSyncRecord(syncHistory,
                                      SyncData(storeResult, Len(sel.highlights)),
                                      uuidSeq + 1, now)
      /\ uuidSeq' = uuidSeq + 1
      /\ settings' = newSettings
      /\ alarms' = IF \/ Get(newSettings, "syncFrequency", 0) # 0
                      \/ Get(newSettings, "enableAutoSync", FALSE)
                   THEN setupDefaultAlarms(newSettings, now)
                   ELSE alarms
      /\ sel' = Idle
      /\ lastOp' = Done("trySyncOnTab", <<>>, storeResult)
      /\ UNCHANGED <<scheduler, now, books, highlights, emailHistory>>

\* A reader (getStats, the popup, selectHighlights) reads the two stores with
\* getAllBooks and getAllHighlights, between any two transactions of a batch
\* or while no batch is in progress.  The arg records the batch in progress:
\* its asins and ids, and the stores when it began.
ReadStores ==
  LET storing == sel.pc = "storing"
  IN  /\ sel.pc \in {"idle", "storing"}
      /\ lastOp' = Done("getStats",
                        [storing |-> storing,
                         asins |-> IF storing
                                   THEN {sel.books[i].asin : i \in 1..Len(sel.books)}
                                   ELSE {},
                         ids |-> IF storing
                                 THEN {sel.highlights[i].id : i \in 1..Len(sel.highlights)}
                                 ELSE {},
                         before |-> IF storing THEN sel.before
                                    ELSE [books |-> books, highlights |-> highlights]],
                        [books |-> books, highlights |-> highlights])
      /\ UNCHANGED <<scheduler, now, books, highlights, syncHistory, emailHistory,
                     uuidSeq, settings, alarms, sel>>

\* The batches in which every item is stored.
NextStore ==
  \/ Tick
  \/ StoreBegin
  \/ StoreAddBook /\ sel'.errors = sel.errors
  \/ StoreAddHighlight /\ sel'.errors = sel.errors
  \/ StoreEnd
  \/ ReadStores

SpecStore == Init /\ [][NextStore]_vars

\* selectHighlights(count, userSettings) in the mode 'most-highlighted'.
SelectMostHighlighted ==
  \E count \in Counts :
    \E userSettings \in {s \in SelectionSettings :
                           Get(s, "highlightSelectionMode", "") = "most-highlighted"} :
      /\ sel.pc = "idle"
      /\ selectHighlights("selectFromMostHighlightedBooks", <<>>, count, userSettings)
      /\ lastOp' = Done("selectFromMostHighlightedBooks", [count |-> count], <<>>)
      /\ UNCHANGED <<scheduler, now, books, highlights, syncHistory, emailHistory,
                     uuidSeq, settings, alarms>>

\* The selection is returned to the caller.
ReturnMostHighlighted ==
  /\ sel.pc = "selected"
  /\ sel.caller = "selectFromMostHighlightedBooks"
  /\ sel' = Idle
  /\ lastOp' = Done("selectFromMostHighlightedBooks", [count |-> sel.count],
                    sel.highlights)
  /\ UNCHANGED <<scheduler, now, books, highlights, syncHistory, emailHistory, uuidSeq,
                 settings, alarms>>

NextLoop ==
  \/ Tick
  \/ SelectMostHighlighted
  \/ SelectFromMostHighlightedBooks
  \/ ReturnMostHighlighted

\* The selections in the mode 'most-highlighted', with the loop scheduled
\* fairly: a pass that can be made is made, and Math.random does not avoid
\* forever a candidate that would add to the selection.
SpecLoop ==
  /\ InitSelect
  /\ [][NextLoop]_vars
  /\ WF_sel(SelectFromMostHighlightedBooks)
  /\ SF_sel(SelectFromMostHighlightedBooks
            /\ Len(sel'.highlights) > Len(sel.highlights))

\* The weekly settings a user saves: every weekday 0 (Sunday) to 6 (Saturday)
\* or none, at a time of day before, at and after the clock's times.
WeeklySettings ==
  {[emailFrequency |-> "weekly", emailTime |-> emailTime, emailDay |-> emailDay] :
     emailTime \in {<<9, 0>>, <<10, 0>>, <<22, 30>>}, emailDay \in 0..6}
  \cup {[emailFrequency |-> "weekly", emailTime |-> emailTime] :
          emailTime \in {<<9, 0>>, <<10, 0>>, <<22, 30>>}}

\* scheduleEmails(userSettings) with weekly settings.
ScheduleWeekly ==
  \E userSettings \in WeeklySettings :
    /\ sel.pc = "idle"
    /\ alarms' = scheduleEmails(alarms, userSettings, now)
    /\ lastOp' = Done("scheduleEmails", userSettings, <<>>)
    /\ UNCHANGED <<scheduler, now, books, highlights, syncHistory, emailHistory, uuidSeq,
                   settings, sel>>

NextWeekly ==
  \/ Tick
  \/ ScheduleWeekly

SpecWeekly == InitSched /\ [][NextWeekly]_vars

(***************************************************************************)
(* Properties.                                                             *)
(***************************************************************************)

\* C1: whatever was ingested, and however often, the highlights store holds at
\* most one record of each id and at most one record of each book and text.
C1_OneRecordPerHighlight ==
  \A h \in highlights, g \in highlights :
    (h.id = g.id \/ (h.bookAsin = g.bookAsin /\ h.text = g.text)) => h = g

\* A sync has stored again a highlight that was stored already.
C1_Reingested ==
  /\ lastOp.name = "storeScrapedData"
  /\ lastOp.result > 0
  /\ Cardinality(highlights) > 1

\* C2: no step changes the dateAdded of a highlight that is already stored: a
\* later ingestion of the same id leaves the date of the first ingestion.
C2_DateAddedKept ==
  [][\A h \in highlights : \A g \in highlights' :
       g.id = h.id => g.dateAdded = h.dateAdded]_vars

\* C3: cleanup removes exactly the highlights whose bookAsin is the asin of no
\* stored book, and keeps every other highlight and every book as it was.
C3_CleanupRemovesOrphans ==
  [][lastOp'.name = "cleanup" =>
       /\ highlights' = {h \in highlights : \E b \in books : b.asin = h.bookAsin}
       /\ books' = books]_vars

\* cleanup has removed the highlights of a deleted book and kept others.
C3_OrphansRemoved ==
  /\ lastOp.name = "cleanup"
  /\ lastOp.result > 0
  /\ highlights # {}

\* C4: importData(exportAllData(), {overwrite: true}), into the same store or
\* into a cleared one, leaves the same books and the same highlights, field by
\* field.
C4_RoundTrip ==
  [][lastOp'.name = "exportImport" =>
       books' = books /\ highlights' = highlights]_vars

\* A populated store was exported, cleared and imported, later than its
\* highlights were ingested.
C4_Imported ==
  /\ lastOp.name = "exportImport"
  /\ lastOp.arg = TRUE
  /\ Cardinality(highlights) > 1
  /\ books # {}
  /\ \E h \in highlights : h.dateAdded < now

\* C5: for every mode and every filter, a selection holds at most count
\* highlights, while it is made and when it is returned.
C5_AtMostCount ==
  sel.pc \in {"loop", "selected"} => Len(sel.highlights) <= sel.count

\* selectHighlights has returned count highlights of more that pass the filter.
C5_Full ==
  /\ sel.pc = "selected"
  /\ sel.caller = "selectHighlights"
  /\ sel.count > 0
  /\ Len(sel.highlights) = sel.count
  /\ sel.filteredCount > sel.count

\* C6: a selection that succeeds holds exactly min(count, number of highlights
\* that pass the filter) highlights, no two of them the same.
C6_ExactlyMinCount ==
  (sel.pc = "selected" /\ sel.status = "success") =>
    /\ Len(sel.highlights) = Min(sel.count, sel.filteredCount)
    /\ \A i \in 1..Len(sel.highlights), j \in 1..Len(sel.highlights) :
         sel.highlights[i] = sel.highlights[j] => i = j

\* C7: from its call to its return, selectHighlights or previewSelection changes
\* no book, no highlight and no record of the sync and email histories.
C7_SelectionReadsOnly ==
  [][(\/ sel.caller \in {"selectHighlights", "previewSelection"}
      \/ sel'.caller \in {"selectHighlights", "previewSelection"}) =>
       UNCHANGED <<books, highlights, syncHistory, emailHistory>>]_vars

\* previewSelection has returned, over a store with highlights already shown.
C7_Previewed ==
  /\ lastOp = Done("previewSelection", <<>>, "success")
  /\ syncHistory # {}
  /\ \E h \in highlights : TimesShown(h) > 0

\* C8: markHighlightsAsShown(ids) adds 1 to timesShown and sets lastShown to the
\* time of the call for each stored highlight whose id is in ids, leaves every
\* other highlight as it was, and adds and removes none.
C8_MarkedAsShown ==
  [][lastOp'.name = "markHighlightsAsShown" =>
       /\ {g.id : g \in highlights'} = {h.id : h \in highlights}
       /\ \A h \in highlights : \A g \in highlights' :
            g.id = h.id =>
              IF Includes(lastOp'.arg, h.id)
              THEN /\ TimesShown(g) = TimesShown(h) + 1
                   /\ LastShown(g) = now
              ELSE g = h]_vars

\* A highlight has been marked as shown for the second time, another was not
\* named, and one of the ids named is of no stored highlight.
C8_ShownTwice ==
  /\ lastOp.name = "markHighlightsAsShown"
  /\ \E h \in highlights : Includes(lastOp.arg, h.id) /\ TimesShown(h) = 2
  /\ \E h \in highlights : ~Includes(lastOp.arg, h.id)
  /\ Includes(lastOp.arg, MissingId)

\* The highlights whose timesShown or lastShown a step changes.
Committed ==
  {h.id : h \in {x \in highlights :
                   \E g \in highlights' :
                     /\ g.id = x.id
                     /\ (TimesShown(g) # TimesShown(x) \/ LastShown(g) # LastShown(x))}}

\* C9: in a cycle of sendScheduledEmail, timesShown and lastShown change only in
\* the step that ends it, only if the email service answered 'success', and then
\* for exactly the highlights selected; no highlight is added or removed.
C9_CommitOnlyWhenSent ==
  [][(sel.caller = "sendScheduledEmail" \/ sel'.caller = "sendScheduledEmail") =>
       /\ {g.id : g \in highlights'} = {h.id : h \in highlights}
       /\ Committed = IF /\ sel.pc = "selected"
                         /\ sel'.pc = "idle"
                         /\ lastOp'.result[2] = "success"
                      THEN Range(sel.highlights)
                      ELSE {}]_vars

\* A cycle has ended with the email service's 'error', after a cycle that
\* committed its selection.
C9_FailedAfterSent ==
  /\ lastOp = Done("sendScheduledEmail", <<>>, <<"error", "error">>)
  /\ \E h \in highlights : TimesShown(h) > 0
  /\ \E h \in highlights : TimesShown(h) = 0

\* C10: at most one alarm 'kindle-highlights-reminder' is pending, and after
\* scheduleEmails or updateSchedule the only one pending is the one the call
\* created: none for the frequency 'manual'.
C10_OneReminder ==
  /\ [](Cardinality(ReminderAlarms(alarms)) <= 1)
  /\ [][lastOp'.name \in {"scheduleEmails", "updateSchedule"} =>
          ReminderAlarms(alarms') = NewReminder(lastOp'.arg, now)]_vars

\* scheduleEmails has put a weekly alarm in the place of the daily one, beside
\* the sync alarm.
C10_Rescheduled ==
  /\ lastOp.name = "scheduleEmails"
  /\ \E a \in ReminderAlarms(alarms) : a.periodInMinutes = 7 * DayMinutes
  /\ Cardinality(alarms) = 2

\* The time-of-day, in minutes after midnight, of an emailTime.
TimeOfDay(emailTime) == (emailTime[1] * HourMinutes) + emailTime[2]

\* next is the first instant strictly after t whose time-of-day is emailTime.
FirstAfter(next, emailTime, t) ==
  /\ next > t
  /\ next - t <= DayMinutes
  /\ next % DayMinutes = TimeOfDay(emailTime)

\* C11: for the frequency 'daily' the reminder is scheduled at the configured
\* time-of-day of today if that is still after now, and of the next day
\* otherwise: always strictly after now and at most a day after it.
C11_NextDailyTime ==
  /\ (/\ lastOp.name \in {"scheduleEmails", "updateSchedule"}
      /\ lastOp.arg.emailFrequency = "daily"
      /\ "emailTime" \in DOMAIN lastOp.arg) =>
        /\ ReminderAlarms(alarms) # {}
        /\ \A a \in ReminderAlarms(alarms) :
             FirstAfter(a.scheduledTime, lastOp.arg.emailTime, now)
  /\ \A userSettings \in ScheduleSettings :
       "emailTime" \in DOMAIN userSettings =>
         FirstAfter(getNextEmailTime(userSettings.emailTime, now),
                    userSettings.emailTime, now)

\* emailTime 09:00 daily was scheduled at 10:00 of day 0: the reminder is at
\* 09:00 of day 1.
C11_RolledToNextDay ==
  /\ lastOp.name = "scheduleEmails"
  /\ lastOp.arg.emailFrequency = "daily"
  /\ "emailTime" \in DOMAIN lastOp.arg
  /\ lastOp.arg.emailTime = <<9, 0>>
  /\ now = 10 * HourMinutes
  /\ \E a \in ReminderAlarms(alarms) : a.scheduledTime = DayMinutes + (9 * HourMinutes)

\* C12: a call that sets the frequency to 'manual', scheduleEmails or
\* updateSchedule with such settings or a 'save-settings' message that carries
\* it, leaves no reminder alarm pending.
C12_ManualNoTrigger ==
  [][(/\ lastOp'.name \in {"scheduleEmails", "updateSchedule", "saveSettings"}
      /\ Get(lastOp'.arg, "emailFrequency", "") = "manual") =>
       ReminderAlarms(alarms') = {}]_vars

\* C13: bulkDeleteHighlights(ids) resolves, removes exactly the stored
\* highlights whose id is listed, and reports as deleted only the listed ids
\* that were stored: an id of no stored highlight is reported as not found.
C13_BulkDeleteReports ==
  [][lastOp'.name = "bulkDeleteHighlights" =>
       /\ highlights' = {h \in highlights : ~Includes(lastOp'.arg, h.id)}
       /\ lastOp'.result.status = "resolved"
       /\ lastOp'.result.value =
            Cardinality({h \in highlights : Includes(lastOp'.arg, h.id)})]_vars

\* C14: bulkUpdateHighlights(ids, patch) resolves to a list with an entry for
\* every listed id, puts the patch on every stored highlight that is listed
\* and whose put does not fail, and leaves every other highlight as it was.
C14_BulkUpdatePerId ==
  [][lastOp'.name = "bulkUpdateHighlights" =>
       /\ lastOp'.result.status = "resolved"
       /\ \A i \in 1..Len(lastOp'.arg.highlightIds) :
            \E k \in 1..Len(lastOp'.result.value) :
              lastOp'.result.value[k].id = lastOp'.arg.highlightIds[i]
       /\ {g.id : g \in highlights'} = {h.id : h \in highlights}
       /\ \A h \in highlights :
            IF Includes(lastOp'.arg.highlightIds, h.id) /\ h.id # lastOp'.arg.failed
            THEN Spread(h, lastOp'.arg.updates) \in highlights'
            ELSE h \in highlights']_vars

\* The records of list whose key is the key of a record of store.
Duplicates(list, store, keyPath) ==
  {i \in 1..Len(list) : StoreGet(store, keyPath, list[i][keyPath]) # {}}

\* record is stored with every field it has.
StoredAs(record, store) ==
  \E g \in store : \A k \in DOMAIN record : k \in DOMAIN g /\ g[k] = record[k]

\* C15: when an imported record has the key of a stored one, overwrite = true
\* stores the imported record in its place, and skipDuplicates = true (without
\* overwrite) leaves the stored record as it was and counts the record as
\* skipped.
C15_ImportDuplicates ==
  [][lastOp'.name = "importData" =>
       LET arg == lastOp'.arg
           bookList == arg.import.data.books
           highlightList == arg.import.data.highlights
       IN  /\ arg.overwrite =>
                /\ \A i \in Duplicates(bookList, books, "asin") :
                     StoredAs(bookList[i], books')
                /\ \A i \in Duplicates(highlightList, highlights, "id") :
                     StoredAs(highlightList[i], highlights')
           /\ (arg.skipDuplicates /\ ~arg.overwrite) =>
                /\ \A i \in Duplicates(bookList, books, "asin") :
                     StoreGet(books, "asin", bookList[i].asin) \subseteq books'
                /\ \A i \in Duplicates(highlightList, highlights, "id") :
                     StoreGet(highlights, "id", highlightList[i].id) \subseteq highlights'
                /\ lastOp'.result.value.books.skipped =
                     Cardinality(Duplicates(bookList, books, "asin"))
                /\ lastOp'.result.value.highlights.skipped =
                     Cardinality(Duplicates(highlightList, highlights, "id"))]_vars

\* An import that skips duplicates has skipped a highlight and added another,
\* into a store where an earlier import had overwritten a highlight.
C15_SkippedAndOverwritten ==
  /\ lastOp.name = "importData"
  /\ lastOp.arg.skipDuplicates /\ ~lastOp.arg.overwrite
  /\ lastOp.result.value.highlights.skipped > 0
  /\ lastOp.result.value.highlights.imported > 0
  /\ \E h \in highlights : h.dateAdded = StartTime
  /\ \E h \in highlights : h.dateAdded = SnapshotTime

\* C16: with neither overwrite nor skipDuplicates, an imported record that has
\* the key of a stored one is reported as an error and the stored record stays
\* as it was.
C16_ImportNeitherFlag ==
  [][(/\ lastOp'.name = "importData"
      /\ ~lastOp'.arg.overwrite
      /\ ~lastOp'.arg.skipDuplicates) =>
       LET bookList == lastOp'.arg.import.data.books
           highlightList == lastOp'.arg.import.data.highlights
       IN  /\ \A i \in Duplicates(bookList, books, "asin") :
                StoreGet(books, "asin", bookList[i].asin) \subseteq books'
           /\ \A i \in Duplicates(highlightList, highlights, "id") :
                StoreGet(highlights, "id", highlightList[i].id) \subseteq highlights'
           /\ lastOp'.result.value.books.errors =
                Cardinality(Duplicates(bookList, books, "asin"))
           /\ lastOp'.result.value.highlights.errors =
                Cardinality(Duplicates(highlightList, highlights, "id"))]_vars

\* C17: an import of a snapshot whose version is not the version exportAllData
\* writes is rejected, and stores no book and no highlight.
C17_ImportUnknownVersion ==
  [][(/\ lastOp'.name = "importData"
      /\ lastOp'.arg.import.version # exportAllData({}, {}).version) =>
       /\ lastOp'.result.status = "rejected"
       /\ books' = books
       /\ highlights' = highlights]_vars

KeepsMostRecent(kept, history, dateKey, max) ==
  /\ kept \subseteq history
  /\ Cardinality(kept) <= max
  /\ \A r \in kept : \A q \in history \ kept : r[dateKey] >= q[dateKey]

\* C19: after cleanup({maxSyncRecords: n, maxEmailRecords: m}) the sync history
\* holds at most n records and the email history at most m, however many they
\* held, and every record kept is at least as recent as every record removed.
C19_RetentionPruned ==
  [][(lastOp'.name = "cleanup" /\ "maxSyncRecords" \in DOMAIN lastOp'.arg) =>
       /\ KeepsMostRecent(syncHistory', syncHistory, "syncDate",
                          lastOp'.arg.maxSyncRecords)
       /\ KeepsMostRecent(emailHistory', emailHistory, "sentDate",
                          lastOp'.arg.maxEmailRecords)]_vars

\* C20: in every state each stored highlight has a timesShown that is a
\* natural number, and it is 0 exactly when the highlight has no lastShown.
C20_ShownStatistics ==
  \A h \in highlights :
    /\ TimesShown(h) \in Nat
    /\ TimesShown(h) = 0 <=> LastShown(h) = 0

\* C21: of two highlights that differ only in lastShown, both shown before and
\* equally often, the one shown longer ago has a score before the tie break
\* that is at least the score of the other.
C21_OlderScoresHigher ==
  lastOp.name = "calculateSpacedRepetitionScore" =>
    lastOp.result.older >= lastOp.result.newer

\* C21 happens: a highlight at the last interval of the ladder scores strictly
\* higher with the older lastShown.
C21_OlderStrictlyHigher ==
  /\ lastOp.name = "calculateSpacedRepetitionScore"
  /\ lastOp.arg.timesShown >= Len(spacedRepetitionIntervals) - 1
  /\ lastOp.result.older > lastOp.result.newer

\* The dateHighlighted of the stored highlight id.
DateHighlighted(id) == (CHOOSE h \in highlights : h.id = id).dateHighlighted

\* C22: in oldest-first mode with no filter, selectHighlights(count) returns
\* min(count, stored) stored highlights, no one twice, in ascending order of
\* dateHighlighted, and no highlight it leaves out is earlier than one it returns.
C22_OldestFirst ==
  (/\ sel.pc = "selected"
   /\ sel.status = "success"
   /\ sel.userSettings # <<>>
   /\ DOMAIN sel.userSettings \subseteq {"highlightsPerEmail", "highlightSelectionMode"}
   /\ Get(sel.userSettings, "highlightSelectionMode", "") = "oldest-first") =>
    LET ids == sel.highlights IN
    /\ Len(ids) = Min(sel.count, Cardinality(highlights))
    /\ \A i \in 1..Len(ids) : \E h \in highlights : h.id = ids[i]
    /\ \A i \in 1..Len(ids), j \in 1..Len(ids) :
         /\ ids[i] = ids[j] => i = j
         /\ i < j => DateHighlighted(ids[i]) <= DateHighlighted(ids[j])
    /\ \A h \in highlights :
         ~Includes(ids, h.id) =>
           \A i \in 1..Len(ids) : DateHighlighted(ids[i]) <= h.dateHighlighted

\* C22 happens: two of three stored highlights are returned, the earlier one
\* first, and the one left out is no earlier than either.
C22_TwoOfThree ==
  /\ sel.pc = "selected"
  /\ sel.status = "success"
  /\ Get(sel.userSettings, "highlightSelectionMode", "") = "oldest-first"
  /\ sel.count = 2
  /\ Len(sel.highlights) = 2
  /\ Cardinality(highlights) = 3
  /\ DateHighlighted(sel.highlights[1]) < DateHighlighted(sel.highlights[2])
  /\ \A h \in highlights :
       ~Includes(sel.highlights, h.id) =>
         DateHighlighted(sel.highlights[2]) <= h.dateHighlighted

\* C23: when every markHighlightsAsShown call in progress has returned, each
\* stored highlight has been counted once more for each call that names its id.
C23_NoLostShowing ==
  (sel.pc = "marking" /\ \A c \in DOMAIN sel.calls : sel.calls[c].pc = "done") =>
    \A h \in highlights :
      \E b \in sel.before :
        /\ b.id = h.id
        /\ TimesShown(h) =
             TimesShown(b)
               + Cardinality({c \in DOMAIN sel.calls : Includes(sel.calls[c].ids, h.id)})

\* The cycles that have not returned.
InFlight == {c \in DOMAIN sel.cycles : sel.cycles[c].pc # "done"}

\* C24: at most one delivery cycle is in flight at any time, and no highlight
\* is selected by two cycles that are handled together.
C24_OneCycleInFlight ==
  sel.pc = "cycles" =>
    /\ Cardinality(InFlight) <= 1
    /\ \A c \in DOMAIN sel.cycles, d \in DOMAIN sel.cycles :
         c # d => Range(sel.cycles[c].highlights) \cap Range(sel.cycles[d].highlights) = {}

\* C25: a step in which a delivery cycle ends in an error leaves the reminder
\* alarm pending and as it was.
C25_FailedCycleKeepsSchedule ==
  [][(/\ sel.pc = "cycles"
      /\ sel'.pc = "cycles"
      /\ \E c \in DOMAIN sel.cycles :
           sel.cycles[c].status # "error" /\ sel'.cycles[c].status = "error") =>
       /\ ReminderAlarms(alarms') # {}
       /\ alarms' = alarms]_vars

\* C25 happens: a cycle has failed at the email service, after a selection,
\* and another at the settings.
C25_FailedCycles ==
  /\ sel.pc = "cycles"
  /\ \E c \in DOMAIN sel.cycles :
       sel.cycles[c].status = "error" /\ sel.cycles[c].highlights # <<>>
  /\ \E c \in DOMAIN sel.cycles :
       sel.cycles[c].status = "error" /\ sel.cycles[c].userSettings = <<>>
  /\ ReminderAlarms(alarms) # {}

\* C29: whenever a firing of the reminder alarm is being handled, the scheduler
\* holds its database, its email service and its highlight selector.
C29_SchedulerInitialized ==
  sel.pc = "cycles" => \A field \in DOMAIN scheduler : scheduler[field] # "null"

\* C26: Retries are bounded.  withRetry invokes the operation at most
\* maxRetries (3) times, stops at the first success, and otherwise returns a
\* failure result after the last attempt; the delay after a failed attempt is
\* 1000 * 2^(attempt - 1) ms, capped at 10000 ms; performSyncWithRetry makes at
\* most maxRetries attempts, and every call of either returns a result.
Doubled(attempt) == 1000 * (2 ^ (attempt - 1))

Capped(attempt) == IF Doubled(attempt) > 10000 THEN 10000 ELSE Doubled(attempt)

RetriesBounded ==
  /\ sel.pc = "withRetry" =>
       /\ sel.invoked < 3
       /\ sel.attempt = sel.invoked + 1
       /\ sel.delays = [i \in 1..sel.invoked |-> Capped(i)]
  /\ lastOp.name = "withRetry" /\ lastOp.result # <<>> =>
       /\ lastOp.arg.invoked <= 3
       /\ lastOp.arg.delays = [i \in 1..(lastOp.arg.invoked - 1) |-> Capped(i)]
       /\ lastOp.result.success => lastOp.result.attempts = lastOp.arg.invoked
       /\ ~lastOp.result.success =>
            lastOp.arg.invoked = 3 /\ lastOp.result.attempts = 3
  /\ lastOp.name = "calculateBackoffDelay" =>
       lastOp.result.delay = Capped(lastOp.arg.attempt)
  /\ sel.pc = "performSyncWithRetry" =>
       sel.tried < sel.maxRetries /\ sel.attempt = sel.tried + 1
  /\ lastOp.name = "performSyncWithRetry" /\ lastOp.result # <<>> =>
       /\ lastOp.arg.tried <= SyncRetries
       /\ DOMAIN lastOp.result = {"status", "message"}

C27_BatchAtomic ==
  lastOp.name = "getStats" /\ lastOp.arg.storing =>
    \/ /\ lastOp.result.books = lastOp.arg.before.books
       /\ lastOp.result.highlights = lastOp.arg.before.highlights
    \/ /\ lastOp.arg.asins \subseteq {b.asin : b \in lastOp.result.books}
       /\ lastOp.arg.ids \subseteq {h.id : h \in lastOp.result.highlights}

\* C28: selectFromMostHighlightedBooks terminates for every input: once its
\* round-robin over the books has begun, it returns its selection, also when
\* count exceeds the number of available highlights and when a book still has
\* never-shown highlights after one of them was picked.
C28_LoopTerminates == (sel.pc = "loop") ~> (sel.pc = "selected")

\* C30: for the frequency 'weekly' the reminder is scheduled strictly after
\* now, at most 7 days ahead, at the configured time-of-day, on the configured
\* weekday emailDay for every emailDay in 0..6 (Sunday = 0 included), on Monday
\* only when emailDay is not set, and repeats every 7 days.
\* Day 0 of the clock, 1 January 1970, is a Thursday.
Weekday(t) == ((t \div DayMinutes) + 4) % 7

C30_WeeklyOnConfiguredDay ==
  (lastOp.name = "scheduleEmails" /\ lastOp.arg.emailFrequency = "weekly") =>
    /\ ReminderAlarms(alarms) # {}
    /\ \A a \in ReminderAlarms(alarms) :
         /\ a.scheduledTime > now
         /\ a.scheduledTime - now <= 7 * DayMinutes
         /\ a.scheduledTime % DayMinutes = TimeOfDay(lastOp.arg.emailTime)
         /\ Weekday(a.scheduledTime) =
              (IF "emailDay" \in DOMAIN lastOp.arg THEN lastOp.arg.emailDay ELSE 1)
         /\ a.periodInMinutes = 7 * DayMinutes

====
